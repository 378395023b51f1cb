------------------------ MODULE GameConversation_proofs ------------------------
(***************************************************************************)
(* Theorems about GameConversation, for any words, texts, drafts and       *)
(* bounds.                                                                 *)
(*                                                                         *)
(* GameMatchesOngoing and SpeechMatchesGame look at the end of a turn.     *)
(* The inductive invariant says, stage by stage of the turn, how far game  *)
(* and OngoingActivity are apart (Step), and what the facts the character  *)
(* is given leave open about the game (Truth).                             *)
(***************************************************************************)
EXTENDS GameConversation, TLAPS

Stages == {"idle", "evaluating", "interpreting", "executing", "thinking", "speaking",
           "syncing", "replying"}

\* Between turns, and until a command is executed.
Together(o, g) ==
    /\ Active(g) <=> o # NoOngoing
    /\ Active(g) => o.session = g.id /\ g.linked /\ g.turn = "user"

\* In a turn of the activity that goes on the game may be ahead of it; a new game
\* has none yet.
Ahead(o, g) ==
    IF TurnStarted THEN o # NoOngoing /\ o.session = g.id /\ g.linked
    ELSE o = NoOngoing

Step ==
    /\ stage \in {"idle", "evaluating", "interpreting", "executing", "replying"} =>
          Together(ongoing, game)
    /\ stage = "executing" =>
          /\ IF TurnStarted THEN ongoing # NoOngoing ELSE command.intent = "start"
          /\ command.intent = "control" => command.with \in Controls
    /\ stage \in {"thinking", "speaking", "syncing"} => Ahead(ongoing, game)
    /\ stage = "thinking" => Active(game) /\ game.turn = "ai" /\ game.loser = "nobody"
    /\ stage \in {"speaking", "syncing"} => (Active(game) => game.turn = "user")
    /\ stage = "speaking" => TurnStarted
    /\ stage \in {"speaking", "syncing"} => game.status # "none"

\* The facts are those of the game: nothing is a success that has not ended it, and
\* with no game there is something in them that refutes or does not allow that one
\* goes on.
Truth(c, g) ==
    /\ c.status \in ExecutionStatuses
    /\ Active(g) => c.status # "succeeded"
    /\ ~Active(g) => \/ c.status \in {"rejected", "canceled"}
                     \/ c.ongoing \in {"completed", "canceled"}
                     \/ c.status = "waiting_input" /\ c.ongoing = "none"

Types ==
    /\ game \in GameType
    /\ ongoing \in Ongoings \cup {NoOngoing}
    /\ stage \in Stages
    /\ stage \in {"evaluating", "interpreting"} => text \in Texts

IInv ==
    /\ Types /\ Step /\ SpeechMatchesGame
    /\ stage = "replying" => Truth(context, game)

-----------------------------------------------------------------------------
\* What is adopted of the drafts

\* Whoever wrote the draft: it claims success only of what succeeded, and a running
\* activity only where the facts have one.
LEMMA AdoptedIsTrue ==
  ASSUME NEW c, NEW g, Truth(c, g), NEW d \in Drafts, Adoptable(c, d)
  PROVE  /\ Active(g) => d.says \cap Completion = {}
         /\ ~Active(g) => d.says \cap {"running", "continued"} = {}
<1>1. d.says \cap Refuted(c) = {}
  BY DEF Adoptable, Holds
<1>2. ASSUME Active(g) PROVE d.says \cap Completion = {}
  <2>1. Completion \subseteq StatusRefutes(c)
    BY <1>2 DEF Truth, ExecutionStatuses, StatusRefutes, Completion, Positive
  <2> QED
    BY <1>1, <2>1 DEF Refuted
<1>3. ASSUME ~Active(g) PROVE d.says \cap {"running", "continued"} = {}
  <2>1. CASE c.status \in {"rejected", "canceled"}
    <3>1. {"running", "continued"} \subseteq StatusRefutes(c)
      BY <2>1 DEF StatusRefutes, Positive
    <3> QED
      BY <1>1, <3>1 DEF Refuted
  <2>2. CASE c.ongoing \in {"completed", "canceled"}
    <3>1. {"running", "continued"} = OngoingRefutes(c)
      BY <2>2 DEF OngoingRefutes
    <3> QED
      BY <1>1, <3>1 DEF Refuted
  <2>3. CASE c.status = "waiting_input" /\ c.ongoing = "none"
    <3>1. d.reports \subseteq {"requested", "conversation_only"}
      <4>1. Allowed(c) \subseteq {"requested", "conversation_only"}
        BY <2>3 DEF Allowed, WhileOngoing
      <4> QED
        BY <4>1 DEF Adoptable, Holds
    <3>2. DOMAIN Synonyms = {"continues", "execution_unavailable"}
      BY DEF Synonyms
    <3>3. Reported(d) \subseteq {"requested", "conversation_only"}
      BY <3>1, <3>2 DEF Reported
    <3>4. Reported(d) \cap Positive = {}
      BY <3>3 DEF Positive
    <3>5. d.says \cap Positive = {}
      BY <3>4 DEF Adoptable, Holds, Differ
    <3> QED
      BY <3>5 DEF Positive
  <2> QED
    BY <1>3, <2>1, <2>2, <2>3 DEF Truth
<1> QED
  BY <1>2, <1>3

\* What replaces the drafts claims neither.
LEMMA FallbackIsTrue ==
  ASSUME NEW c
  PROVE  Fallback(c) \cap (Completion \cup {"running", "continued"}) = {}
BY DEF Fallback, Completion

-----------------------------------------------------------------------------
LEMMA NoOngoingIsNone == \A o \in Ongoings : o # NoOngoing
BY OngoingAssumption

LEMMA TurnsKeepType ==
  ASSUME NEW o \in Ongoings, NEW waits \in BOOLEAN
  PROVE  /\ TurnBegun(o) \in Ongoings /\ TurnBegun(o).session = o.session
         /\ Recorded(o, waits) \in Ongoings /\ Recorded(o, waits).session = o.session
         /\ Paused(o) \in Ongoings /\ Paused(o).session = o.session
BY DEF Ongoings, TurnBegun, Recorded, Paused

LEMMA NewOngoingType ==
  ASSUME NEW g \in GameType
  PROVE  NewOngoing(g) \in Ongoings /\ NewOngoing(g).session = g.id
BY DEF GameType, Ongoings, NewOngoing

\* Only the status changes.
LEMMA BecomeType ==
  ASSUME NEW g \in GameType, NEW st \in Statuses
  PROVE  /\ Become(g, st) \in GameType
         /\ Become(g, st).status = st
         /\ Become(g, st).id = g.id /\ Become(g, st).linked = g.linked
         /\ Become(g, st).turn = g.turn /\ Become(g, st).loser = g.loser
         /\ Become(g, st).used = g.used
BY DEF GameType, Become

LEMMA CanceledType ==
  ASSUME NEW g \in GameType
  PROVE  /\ Canceled(g) \in GameType /\ ~Active(Canceled(g))
         /\ Canceled(g).used = g.used /\ Canceled(g).loser = g.loser
         /\ Canceled(g).turn = g.turn
BY BecomeType DEF Canceled, Active, Statuses

LEMMA SurrenderedType ==
  ASSUME NEW g \in GameType, NEW player \in Players
  PROVE  /\ Surrendered(g, player) \in GameType
         /\ Surrendered(g, player).status = g.status /\ Surrendered(g, player).id = g.id
         /\ Surrendered(g, player).linked = g.linked
         /\ Surrendered(g, player).turn = g.turn
         /\ Surrendered(g, player).used = g.used
         /\ Surrendered(g, player).loser = player
BY DEF GameType, Surrendered

LEMMA StartedType ==
  ASSUME NEW g \in GameType
  PROVE  /\ Started(g) \in GameType /\ Active(Started(g))
         /\ Started(g).turn = "ai" /\ Started(g).loser = "nobody" /\ Started(g).used = <<>>
<1>1. NoGame \in GameType /\ NoGame.turn = "ai" /\ NoGame.loser = "nobody" /\ NoGame.used = <<>>
  <2>1. <<>> \in Seq(Words)
    OBVIOUS
  <2> QED
    BY <2>1 DEF NoGame, GameType, Statuses, Players
<1>2. [NoGame EXCEPT !.id = g.id + 1] \in GameType
  BY <1>1 DEF GameType
<1> QED
  BY <1>1, <1>2 DEF Started, GameType, Active, Statuses
LEMMA PlayedType ==
  ASSUME NEW g \in GameType, NEW w \in Words
  PROVE  /\ Played(g, w) \in GameType
         /\ Played(g, w).status = g.status /\ Played(g, w).id = g.id
         /\ Played(g, w).linked = g.linked /\ Played(g, w).used = Append(g.used, w)
         /\ LastKana[w] = Nn => /\ Played(g, w).turn = g.turn
                                /\ Played(g, w).loser = g.turn
         /\ LastKana[w] # Nn => /\ Played(g, w).turn = Opponent(g.turn)
                                /\ Played(g, w).loser = g.loser
<1>1. Opponent(g.turn) \in Players
  BY DEF GameType, Players, Opponent
<1>2. Append(g.used, w) \in Seq(Words)
  BY DEF GameType
<1> QED
  BY <1>1, <1>2 DEF GameType, Played

\* What a word must be to be played.
LEMMA VerdictOfPlayed ==
  ASSUME NEW g, NEW w, NEW player, Verdict(g, w, player) \in {"valid", "ends_with_n"}
  PROVE  /\ w \in Words /\ g.loser = "nobody" /\ g.turn = player
         /\ Follows(g, w) /\ w \notin Range(g.used)
         /\ (Verdict(g, w, player) = "valid") <=> (LastKana[w] # Nn)
BY DEF Verdict

-----------------------------------------------------------------------------
\* Ways to leave a turn

\* The text is answered in conversation, beside a game and an activity that agree.
LEMMA TalksKeeps ==
  ASSUME NEW o \in Ongoings \cup {NoOngoing}, game' \in GameType, Together(o, game'),
         NEW status \in {"rejected", "waiting_input", "canceled"},
         NEW confirms, NEW operation, NEW kept, NEW aside,
         Talks(o, confirms, operation, status, kept, aside)
  PROVE  IInv'
<1>1. stage' = "replying"
  BY DEF Talks, Replying
<1>2. ongoing' \in Ongoings \cup {NoOngoing} /\ Together(ongoing', game')
  <2>1. CASE o = NoOngoing
    BY <2>1 DEF Talks
  <2>2. CASE o \in Ongoings
    BY <2>2, TurnsKeepType, NoOngoingIsNone DEF Talks, Together
  <2> QED
    BY <2>1, <2>2
<1>3. /\ context'.status = status
      /\ context'.ongoing = IF o = NoOngoing THEN "none" ELSE "active"
  BY DEF Talks, Replying, Context
<1>4. Truth(context', game')
  BY <1>3 DEF Truth, ExecutionStatuses, Together
<1> QED
  BY <1>1, <1>2, <1>4 DEF IInv, Types, Step, Stages, SpeechMatchesGame

LEMMA TalkStatusesAre == TalkStatuses \subseteq {"rejected", "waiting_input"}
BY DEF TalkStatuses, TalkStatus

\* A plan is run, or answered in conversation.
LEMMA RunsKeeps ==
  ASSUME IInv, stage \in {"idle", "evaluating"}, game' = game, text' \in Texts,
         NEW p, Runs(p)
  PROVE  IInv'
<1>1. Together(ongoing, game) /\ game' \in GameType /\ ongoing \in Ongoings \cup {NoOngoing}
  BY DEF IInv, Types, Step
<1>2. CASE Accepted(p)
  BY <1>1, <1>2 DEF Runs, IInv, Types, Step, Stages, SpeechMatchesGame
<1>3. CASE ~Accepted(p)
  <2>1. PICK status \in TalkStatuses \cup {"rejected"} :
           Talks(ongoing, FALSE, p.operation, status, p.kept, FALSE)
    BY <1>3 DEF Runs
  <2> QED
    BY <1>1, <2>1, TalksKeeps, TalkStatusesAre
<1> QED
  BY <1>2, <1>3

\* A turn that failed is recorded: what is left of the activity goes with the game.
LEMMA RecordsKeeps ==
  ASSUME ongoing \in Ongoings \cup {NoOngoing}, game' \in GameType, NEW g, g = game',
         IF TurnStarted THEN Active(game') => ongoing \in Ongoings /\ Together(ongoing, game')
         ELSE Together(ongoing, game'),
         Records(g)
  PROVE  IInv'
<1> DEFINE left == IF ~TurnStarted THEN ongoing
                   ELSE IF Active(g) THEN Recorded(ongoing, TRUE) ELSE NoOngoing
<1>1. Talks(left, FALSE, plan.operation, "rejected", plan.kept, FALSE)
  BY DEF Records
<1>2. left \in Ongoings \cup {NoOngoing} /\ Together(left, game')
  <2>1. CASE ~TurnStarted
    BY <2>1
  <2>2. CASE TurnStarted /\ Active(g)
    BY <2>2, TurnsKeepType, NoOngoingIsNone DEF Together
  <2>3. CASE TurnStarted /\ ~Active(g)
    BY <2>3 DEF Together
  <2> QED
    BY <2>1, <2>2, <2>3
<1> HIDE DEF left
<1> QED
  BY <1>1, <1>2, TalksKeeps

\* GamesPlugin raised: the game is cancelled, and the activity with it.
LEMMA RaisesKeeps ==
  ASSUME ongoing \in Ongoings \cup {NoOngoing}, NEW g \in GameType,
         ~TurnStarted => ongoing = NoOngoing, Raises(g)
  PROVE  IInv'
<1>1. game' = Canceled(g) /\ game' \in GameType /\ ~Active(game') /\ Records(game')
  BY CanceledType DEF Raises
<1> QED
  BY <1>1, RecordsKeeps DEF Together

-----------------------------------------------------------------------------
\* The steps of a turn, one stage after the other

LEMMA HearsKeeps ==
  ASSUME IInv, NEW t \in Texts, Confirms(t) \/ Declines(t) \/ Revises(t) \/ Considers(t)
  PROVE  IInv'
<1>1. /\ stage = "idle" /\ Together(ongoing, game) /\ game' = game
      /\ game' \in GameType /\ ongoing \in Ongoings \cup {NoOngoing}
      /\ text' \in Texts
  BY DEF IInv, Types, Step, Confirms, Declines, Revises, Considers, Hears
<1>2. CASE Confirms(t)
  BY <1>1, <1>2, RunsKeeps DEF Confirms
<1>3. CASE Declines(t)
  BY <1>1, <1>3, TalksKeeps DEF Declines, TalksOfQuestion
<1>4. CASE Revises(t)
  BY <1>1, <1>4, TalksKeeps DEF Revises, TalksOfQuestion
<1>5. CASE Considers(t)
  BY <1>1, <1>5 DEF Considers, IInv, Types, Step, Stages, SpeechMatchesGame
<1> QED
  BY <1>2, <1>3, <1>4, <1>5

LEMMA EvaluatesKeeps ==
  ASSUME IInv, EvaluatesNext
  PROVE  IInv'
<1>1. /\ stage = "evaluating" /\ Together(ongoing, game) /\ game' = game
      /\ game' \in GameType /\ ongoing \in Ongoings \cup {NoOngoing}
      /\ text' \in Texts
  BY DEF IInv, Types, Step, EvaluatesNext, Asks, Converses, Decides, Evaluated
<1>2. CASE Asks
  BY <1>1, <1>2, TalksKeeps DEF Asks, TalksOfQuestion
<1>3. CASE Converses
  <2>1. PICK status \in TalkStatuses, aside \in {GoesOn, FALSE} :
           Talks(ongoing, FALSE, "none", status, GoesOn, aside)
    BY <1>3 DEF Converses
  <2> QED
    BY <1>1, <2>1, TalksKeeps, TalkStatusesAre
<1>4. CASE Decides
  BY <1>1, <1>4, RunsKeeps DEF Decides
<1> QED
  BY <1>2, <1>3, <1>4 DEF EvaluatesNext

LEMMA InterpretsKeeps ==
  ASSUME IInv, InterpretsNext
  PROVE  IInv'
<1>1. PICK c \in CommandsOf(plan) : Dismisses(c) \/ RollsBack(c) \/ Begins(c)
  BY DEF InterpretsNext
<1>2. /\ stage = "interpreting" /\ Together(ongoing, game)
      /\ game \in GameType /\ ongoing \in Ongoings \cup {NoOngoing}
      /\ plan' = plan /\ command' = c /\ text \in Texts
  BY <1>1 DEF IInv, Types, Step, Dismisses, RollsBack, Begins, Interpreting
<1>3. CASE Dismisses(c)
  <2>1. PICK status \in TalkStatuses \cup {"rejected"} :
           Talks(ongoing, FALSE, plan.operation, status, plan.kept, FALSE)
    BY <1>3 DEF Dismisses
  <2> QED
    BY <1>2, <1>3, <2>1, TalksKeeps, TalkStatusesAre DEF Dismisses
<1>4. CASE RollsBack(c)
  <2>1. ~Active(game)
    BY <1>2, <1>4 DEF RollsBack, Verified, Together
  <2>2. game' \in GameType /\ Together(NoOngoing, game')
    BY <1>2, <1>4, <2>1 DEF RollsBack, Canceled, Together
  <2> QED
    BY <1>4, <2>2, TalksKeeps DEF RollsBack
<1>5. CASE Begins(c)
  <2>1. game' = game /\ stage' = "executing"
    BY <1>5 DEF Begins
  <2>4. c.intent = "control" => c.with \in Controls
    <3>1. \A d \in Guesses : d.intent = "control" => d.with \in Controls
      BY DEF Guesses, Command, Chat
    <3>2. text.control # "none" => text.control \in Controls
      BY <1>2, ConversationAssumption
    <3>3. \A d \in Interpretations : d.intent = "control" => d.with \in Controls
      BY <3>1, <3>2 DEF Interpretations, Command
    <3> QED
      BY <3>3 DEF CommandsOf, Command, Controls
  <2>2. CASE plan.operation = "start"
    <3>1. c.intent = "start"
      BY <2>2 DEF CommandsOf, Command
    <3> QED
      BY <1>2, <1>5, <2>1, <2>2, <2>4, <3>1
      DEF Begins, TurnStarted, IInv, Types, Step, Stages, SpeechMatchesGame
  <2>3. CASE plan.operation # "start"
    <3>1. ongoing' = TurnBegun(ongoing) /\ ongoing \in Ongoings
      BY <1>2, <1>5, <2>3 DEF Begins, Verified
    <3>2. ongoing' \in Ongoings /\ ongoing' # NoOngoing /\ Together(ongoing', game')
      BY <1>2, <2>1, <3>1, TurnsKeepType, NoOngoingIsNone DEF Together
    <3> QED
      BY <1>2, <2>1, <2>3, <2>4, <3>2
      DEF TurnStarted, IInv, Types, Step, Stages, SpeechMatchesGame
  <2> QED
    BY <2>2, <2>3
<1> QED
  BY <1>1, <1>3, <1>4, <1>5

LEMMA SynchronizesKeeps ==
  ASSUME IInv, Synchronizes
  PROVE  IInv'
<1>1. /\ stage = "syncing" /\ Ahead(ongoing, game) /\ game.status # "none"
      /\ Active(game) => game.turn = "user"
      /\ game \in GameType /\ ongoing \in Ongoings \cup {NoOngoing}
      /\ stage' = "replying" /\ context' = FactsOf(game)
  BY DEF IInv, Types, Step, Synchronizes, Replying
<1>2. /\ game' \in GameType /\ game'.status = game.status /\ game'.id = game.id
      /\ game'.turn = game.turn
      /\ Active(game') <=> Active(game)
      /\ Active(game) => game'.linked
  BY <1>1 DEF Synchronizes, GameType, Ahead, Active
<1>3. ongoing' \in Ongoings \cup {NoOngoing} /\ Together(ongoing', game')
  <2> DEFINE this == ThisTurn(ongoing, game)
             recorded == Recorded(this, Active(game))
  <2>1. this \in Ongoings /\ this.session = game.id
    BY <1>1, TurnsKeepType, NewOngoingType DEF ThisTurn, Ahead
  <2>2. /\ recorded \in Ongoings /\ recorded.session = game.id
        /\ Paused(recorded) \in Ongoings /\ Paused(recorded).session = game.id
    <3> HIDE DEF this
    <3>1. Active(game) \in BOOLEAN
      BY DEF Active
    <3>2. recorded \in Ongoings /\ recorded.session = game.id
      BY <2>1, <3>1, TurnsKeepType
    <3> HIDE DEF recorded
    <3> QED
      BY <3>2, TurnsKeepType
  <2>3. ongoing' = CASE game.status = "playing" -> recorded
                     [] game.status = "paused" -> Paused(recorded)
                     [] OTHER -> NoOngoing
    BY DEF Synchronizes, Synchronized
  <2> HIDE DEF recorded
  <2>4. Active(game) <=> ongoing' # NoOngoing
    BY <2>2, <2>3, NoOngoingIsNone DEF Active
  <2>5. Active(game) => ongoing'.session = game.id
    BY <2>2, <2>3 DEF Active
  <2>6. ongoing' \in Ongoings \cup {NoOngoing}
    BY <2>2, <2>3
  <2>7. Together(ongoing', game')
    BY <1>1, <1>2, <2>4, <2>5 DEF Together
  <2> QED
    BY <2>6, <2>7
<1>4. Truth(context', game')
  <2>1. game.status \in {"playing", "paused", "completed", "canceled"}
    BY <1>1 DEF GameType, Statuses
  <2> QED
    BY <1>1, <1>2, <2>1 DEF FactsOf, Stands, Context, Truth, Active, ExecutionStatuses
<1> QED
  BY <1>1, <1>2, <1>3, <1>4 DEF IInv, Types, Step, Stages, SpeechMatchesGame

LEMMA RepliesKeep ==
  ASSUME IInv, RepliesNext
  PROVE  IInv'
<1>1. /\ stage = "replying" /\ Together(ongoing, game) /\ Truth(context, game)
      /\ game' = game /\ ongoing' = ongoing
  BY DEF IInv, Types, Step, RepliesNext, Adopts, Refuses, ReplacesSafely, Drafting
<1>2. CASE Refuses
  BY <1>1, <1>2 DEF Refuses, IInv, Types, Step, Stages, SpeechMatchesGame
<1>3. ASSUME NEW claims, Utters(claims),
             Active(game) => claims \cap Completion = {},
             ~Active(game) => claims \cap {"running", "continued"} = {}
      PROVE  IInv'
  BY <1>1, <1>3 DEF Utters, IInv, Types, Step, Stages, SpeechMatchesGame
<1>4. CASE \E d \in Drafts : Adopts(d)
  <2>1. PICK d \in Drafts : Adopts(d)
    BY <1>4
  <2> QED
    BY <1>1, <1>3, <2>1, AdoptedIsTrue DEF Adopts
<1>5. CASE ReplacesSafely
  BY <1>3, <1>5, FallbackIsTrue DEF ReplacesSafely
<1> QED
  BY <1>2, <1>4, <1>5 DEF RepliesNext

\* The game ends in the turn of its activity, or that raises.
LEMMA EndsKeeps ==
  ASSUME ongoing \in Ongoings \cup {NoOngoing}, TurnStarted, plan' = plan,
         NEW g \in GameType, Ahead(ongoing, g), Ends(g)
  PROVE  IInv'
<1>1. CASE MayBecome(g, "completed")
  <2>1. /\ game' = Become(g, "completed") /\ stage' = "speaking" /\ ongoing' = ongoing
    BY <1>1 DEF Ends
  <2>2. /\ game' \in GameType /\ ~Active(game') /\ game'.status # "none"
        /\ game'.id = g.id /\ game'.linked = g.linked
    BY <2>1, BecomeType DEF Active, Statuses
  <2>3. Ahead(ongoing, game')
    BY <2>2 DEF Ahead
  <2> QED
    BY <2>1, <2>2, <2>3 DEF IInv, Types, Step, Ahead, TurnStarted, Stages, SpeechMatchesGame
<1>2. CASE ~MayBecome(g, "completed")
  BY <1>2, RaisesKeeps DEF Ends
<1> QED
  BY <1>1, <1>2

LEMMA ExecutesKeeps ==
  ASSUME IInv, ExecutesNext
  PROVE  IInv'
<1>1. /\ stage = "executing" /\ Together(ongoing, game) /\ game \in GameType
      /\ ongoing \in Ongoings \cup {NoOngoing} /\ plan' = plan
      /\ IF TurnStarted THEN ongoing # NoOngoing ELSE command.intent = "start"
      /\ command.intent = "control" => command.with \in Controls
  BY DEF IInv, Types, Step, ExecutesNext, Rejects, StartsGame, Moves, Steers, Executing, turnVars
<1>2. CASE Rejects
  BY <1>1, <1>2, RecordsKeeps DEF Rejects
<1>3. CASE StartsGame
  <2>1. ~Active(game) /\ ongoing = NoOngoing /\ ~TurnStarted
    BY <1>1, <1>3 DEF StartsGame, Executing, Validated, Together
  <2> QED
    BY <1>1, <1>3, <2>1, StartedType
    DEF StartsGame, IInv, Types, Step, Ahead, TurnStarted, Stages, SpeechMatchesGame
<1>4. ASSUME Validated(command), command.intent \in {"move", "control"}
      PROVE  Active(game) /\ TurnStarted /\ Ahead(ongoing, game) /\ game.turn = "user"
  BY <1>1, <1>4 DEF Validated, Together, Ahead
<1>5. CASE Moves
  <2> DEFINE w == command.with
             verdict == Verdict(game, w, "user")
  <2>1. Active(game) /\ TurnStarted /\ Ahead(ongoing, game) /\ game.turn = "user"
    BY <1>4, <1>5 DEF Moves, Executing
  <2>2. ASSUME verdict \in {"valid", "ends_with_n"}
        PROVE  /\ Played(game, w) \in GameType /\ Ahead(ongoing, Played(game, w))
               /\ Active(Played(game, w))
               /\ verdict = "valid" => /\ Played(game, w).turn = "ai"
                                       /\ Played(game, w).loser = "nobody"
    BY <1>1, <2>1, <2>2, VerdictOfPlayed, PlayedType DEF Ahead, Active, Opponent
  <2>3. CASE verdict = "valid"
    <3>1. game' = Played(game, w) /\ stage' = "thinking" /\ ongoing' = ongoing
      BY <1>5, <2>3 DEF Moves
    <3> HIDE DEF w, verdict
    <3> QED
      BY <1>1, <2>1, <2>2, <2>3, <3>1
      DEF IInv, Types, Step, Ahead, TurnStarted, Stages, SpeechMatchesGame
  <2>4. CASE verdict = "ends_with_n"
    <3>1. Ends(Played(game, w))
      BY <1>5, <2>4 DEF Moves
    <3> HIDE DEF w, verdict
    <3> QED
      BY <1>1, <2>1, <2>2, <2>4, <3>1, EndsKeeps
  <2>5. CASE verdict \notin {"valid", "ends_with_n"}
    <3>1. stage' = "speaking" /\ game' = game /\ ongoing' = ongoing
      BY <1>5, <2>5 DEF Moves
    <3> HIDE DEF w, verdict
    <3> QED
      BY <1>1, <2>1, <3>1
      DEF IInv, Types, Step, Ahead, Active, TurnStarted, Stages, SpeechMatchesGame
  <2> QED
    BY <2>3, <2>4, <2>5
<1>6. CASE Steers
  <2>1. Active(game) /\ TurnStarted /\ Ahead(ongoing, game) /\ game.turn = "user"
    BY <1>4, <1>6 DEF Steers, Executing
  <2>2. ASSUME NEW st \in {"paused", "playing", "canceled"}, Controlled(st)
        PROVE  IInv'
    <3>1. CASE MayBecome(game, st)
      <4>1. game' = Become(game, st) /\ stage' = "syncing" /\ ongoing' = ongoing
        BY <2>2, <3>1 DEF Controlled
      <4>2. /\ game' \in GameType /\ game'.status # "none" /\ game'.turn = "user"
            /\ game'.id = game.id /\ game'.linked = game.linked
        BY <1>1, <2>1, <4>1, BecomeType DEF Statuses
      <4> QED
        BY <1>1, <2>1, <4>1, <4>2
        DEF IInv, Types, Step, Ahead, TurnStarted, Stages, SpeechMatchesGame
    <3>2. CASE ~MayBecome(game, st)
      BY <1>1, <2>1, <2>2, <3>2, RaisesKeeps DEF Controlled
    <3> QED
      BY <3>1, <3>2
  <2>3. CASE command.with = "surrender"
    <3>1. Ends(Surrendered(game, "user"))
      BY <1>6, <2>3 DEF Steers
    <3>2. /\ Surrendered(game, "user") \in GameType
          /\ Ahead(ongoing, Surrendered(game, "user"))
      BY <1>1, <2>1, SurrenderedType DEF Players, Ahead
    <3> QED
      BY <1>1, <2>1, <3>1, <3>2, EndsKeeps
  <2>4. CASE command.with # "surrender"
    <3>1. \E st \in {"paused", "playing", "canceled"} : Controlled(st)
      BY <1>1, <1>6, <2>4 DEF Steers, Executing, Controls
    <3> QED
      BY <2>2, <3>1
  <2> QED
    BY <2>3, <2>4
<1> QED
  BY <1>2, <1>3, <1>5, <1>6 DEF ExecutesNext

LEMMA ThinksKeeps ==
  ASSUME IInv, ThinksNext
  PROVE  IInv'
<1>1. /\ stage \in {"thinking", "speaking"} /\ game \in GameType
      /\ ongoing \in Ongoings \cup {NoOngoing} /\ plan' = plan
      /\ Ahead(ongoing, game)
  BY DEF IInv, Types, Step, ThinksNext, Replies, Misses, FallsBack, GivesUp, Speaks,
         ModelFails, Thinking, turnVars
<1>2. ASSUME stage = "thinking"
      PROVE  Active(game) /\ game.turn = "ai" /\ game.loser = "nobody"
  BY <1>2 DEF IInv, Step
<1>3. ASSUME NEW w \in Words, Verdict(game, w, "ai") = "valid", Stores(Played(game, w)),
             stage = "thinking"
      PROVE  IInv'
  <2>1. game' = Played(game, w) /\ stage' = "syncing" /\ ongoing' = ongoing
    BY <1>3 DEF Stores
  <2>2. /\ game' \in GameType /\ Ahead(ongoing, game') /\ game'.turn = "user"
        /\ game'.status # "none"
    BY <1>1, <1>2, <1>3, <2>1, VerdictOfPlayed, PlayedType DEF Ahead, Active, Opponent
  <2> QED
    BY <1>1, <2>1, <2>2
    DEF IInv, Types, Step, Ahead, TurnStarted, Stages, SpeechMatchesGame
<1>4. CASE \E w \in Words : Replies(w)
  BY <1>3, <1>4 DEF Replies, Thinking
<1>5. CASE Misses
  BY <1>1, <1>2, <1>5
  DEF Misses, Thinking, IInv, Types, Step, Ahead, TurnStarted, Stages, SpeechMatchesGame
<1>6. CASE FallsBack
  <2>1. PICK w \in InStock : Stores(Played(game, w))
    BY <1>6 DEF FallsBack
  <2>2. w \in Words /\ Verdict(game, w, "ai") = "valid"
    BY WordsAssumption DEF InStock
  <2> QED
    BY <1>3, <1>6, <2>1, <2>2 DEF FallsBack, Thinking
<1>7. CASE GivesUp
  <2> DEFINE lost == Surrendered(game, "ai")
  <2>1. /\ lost \in GameType /\ lost.status = game.status /\ Ahead(ongoing, lost)
    BY <1>1, SurrenderedType DEF Players, Ahead
  <2>2. CASE MayBecome(lost, "completed")
    <3>1. game' = Become(lost, "completed") /\ stage' = "syncing" /\ ongoing' = ongoing
      BY <1>7, <2>2 DEF GivesUp, Stores
    <3> HIDE DEF lost
    <3>2. /\ game' \in GameType /\ ~Active(game') /\ game'.status # "none"
          /\ Ahead(ongoing, game')
      BY <2>1, <3>1, BecomeType DEF Active, Statuses, Ahead
    <3> QED
      BY <1>1, <3>1, <3>2
      DEF IInv, Types, Step, Ahead, TurnStarted, Stages, SpeechMatchesGame
  <2>3. CASE ~MayBecome(lost, "completed")
    <3>1. Raises(lost)
      BY <1>7, <2>3 DEF GivesUp
    <3> HIDE DEF lost
    <3> QED
      BY <1>1, <2>1, <3>1, RaisesKeeps DEF Ahead
  <2> QED
    BY <2>2, <2>3
<1>8. CASE Speaks
  <2>1. /\ stage' = "syncing" /\ game' = game /\ ongoing' = ongoing
        /\ stage = "speaking"
    BY <1>8 DEF Speaks
  <2>2. (Active(game) => game.turn = "user") /\ game.status # "none"
    BY <2>1 DEF IInv, Step
  <2> QED
    BY <1>1, <2>1, <2>2
    DEF IInv, Types, Step, Ahead, TurnStarted, Stages, SpeechMatchesGame
<1>9. CASE ModelFails
  BY <1>1, <1>9, RaisesKeeps DEF ModelFails, Ahead
<1> QED
  BY <1>4, <1>5, <1>6, <1>7, <1>8, <1>9 DEF ThinksNext

-----------------------------------------------------------------------------
LEMMA Initially == Init => IInv
<1> SUFFICES ASSUME Init PROVE IInv
  OBVIOUS
<1>1. game \in GameType /\ ~Active(game)
  <2>1. <<>> \in Seq(Words)
    OBVIOUS
  <2> QED
    BY <2>1 DEF Init, NoGame, GameType, Statuses, Players, Active
<1> QED
  BY <1>1 DEF Init, IInv, Types, Step, Together, Stages, SpeechMatchesGame

LEMMA Inductive == IInv /\ [Next]_vars => IInv'
<1> SUFFICES ASSUME IInv, [Next]_vars PROVE IInv'
  OBVIOUS
<1>1. CASE UNCHANGED vars
  BY <1>1 DEF vars, turnVars, replyVars, IInv, Types, Step, Together, Ahead, Active,
              TurnStarted, Truth, SpeechMatchesGame
<1>2. CASE Expires
  BY <1>2 DEF Expires, turnVars, replyVars, IInv, Types, Step, Together, Ahead, Active,
              TurnStarted, Truth, SpeechMatchesGame
<1>3. CASE HearsNext
  BY <1>3, HearsKeeps DEF HearsNext
<1>4. CASE TurnNext
  BY <1>4, RepliesKeep, EvaluatesKeeps, InterpretsKeeps, ExecutesKeeps, ThinksKeeps,
     SynchronizesKeeps DEF TurnNext
<1> QED
  BY <1>1, <1>2, <1>3, <1>4 DEF Next

\* The inductive invariant holds.
THEOREM Invariant == Spec => []IInv
BY Initially, Inductive, PTL DEF Spec

\* Between turns there is an OngoingActivity exactly if there is a game, they know
\* each other, and the game waits for the user (verify_context,
\* _synchronize_plugin_activity, _record_plugin_failure).
THEOREM GameMatchesOngoingCorrect == Spec => []GameMatchesOngoing
<1>1. IInv => GameMatchesOngoing
  BY DEF IInv, Step, Together, GameMatchesOngoing
<1> QED
  BY <1>1, Invariant, PTL

\* Whatever drafts the character's model may write, the speech that is adopted
\* claims no end of a game that goes on, and no game that is not there
\* (ResponseValidator, ResponseContextBuilder).
THEOREM SpeechCorrect == Spec => []SpeechMatchesGame
<1>1. IInv => SpeechMatchesGame
  BY DEF IInv
<1> QED
  BY <1>1, Invariant, PTL

\* Only the "yes" to an open question runs its plan (_route_behavior).
THEOREM ConfirmedOnceCorrect == Spec => ConfirmedOnce
<1> DEFINE Once == stage = "idle" /\ stage' = "interpreting" =>
                      /\ Asking /\ question' = NoQuestion
                      /\ plan' = Confirmed(question.plan)
<1>1. [Next]_vars => [Once]_vars
  <2> SUFFICES ASSUME Next, stage = "idle", stage' = "interpreting" PROVE Once
    OBVIOUS
  <2>1. PICK t \in Texts : Confirms(t) \/ Declines(t) \/ Revises(t) \/ Considers(t)
    <3>1. ~Expires
      BY DEF Expires
    <3>2. ~TurnNext
      BY DEF TurnNext, RepliesNext, Adopts, Refuses, ReplacesSafely, Drafting,
             EvaluatesNext, Asks, Converses, Decides, Evaluated,
             ExecutesNext, Rejects, StartsGame, Moves, Steers, Executing,
             ThinksNext, Replies, Misses, FallsBack, GivesUp, Thinking, Speaks, ModelFails,
             Synchronizes
    <3> QED
      BY <3>1, <3>2 DEF Next, HearsNext
  <2>2. Confirms(t)
    BY <2>1 DEF Declines, Revises, Considers, TalksOfQuestion, Talks, Replying
  <2> QED
    BY <2>2 DEF Confirms, Hears, Forget, Runs
<1> QED
  BY <1>1, PTL DEF Spec, ConfirmedOnce
-----------------------------------------------------------------------------
\* The words of the game

Good(g) == Chained(g) /\ FairlyPlayed(g)

\* The words, whose turn it is and who has lost are all that counts.
LEMMA SameWords ==
  ASSUME NEW g, NEW h, Good(g), h.used = g.used, h.turn = g.turn, h.loser = g.loser
  PROVE  Good(h)
BY DEF Good, Chained, FairlyPlayed

\* Before the first word it is the AI's turn.
LEMMA EmptyGood ==
  ASSUME NEW g, g.used = <<>>, g.turn = "ai"
  PROVE  Good(g)
<1>1. Len(g.used) = 0 /\ DOMAIN g.used = {} /\ 0 % 2 = 0
  OBVIOUS
<1>2. Chained(g)
  BY <1>1 DEF Chained, IsInjective
<1>3. FairlyPlayed(g)
  BY <1>1 DEF FairlyPlayed
<1> QED
  BY <1>2, <1>3 DEF Good

LEMMA StartedGood ==
  ASSUME NEW g \in GameType
  PROVE  Good(Started(g))
<1> QED
  BY StartedType, EmptyGood

\* A word the rules let through, which may end in the kana of defeat only where
\* the user says it (submit_user_word, generate_ai_turn).
LEMMA PlayedGood ==
  ASSUME NEW g \in GameType, Good(g), NEW w, NEW player \in Players,
         \/ Verdict(g, w, player) = "valid"
         \/ Verdict(g, w, player) = "ends_with_n" /\ player = "user"
  PROVE  Good(Played(g, w))
<1> DEFINE s == g.used
           h == Played(g, w)
           n == Len(s)
<1>1. /\ w \in Words /\ g.loser = "nobody" /\ g.turn = player /\ Follows(g, w)
      /\ \A i \in 1..n : s[i] # w
      /\ player = "ai" => LastKana[w] # Nn
  BY VerdictOfPlayed DEF Range, Players, GameType
<1>2. s \in Seq(Words) /\ n \in Nat /\ DOMAIN s = 1..n
  BY DEF GameType
<1>3. /\ h.used \in Seq(Words) /\ Len(h.used) = n + 1 /\ DOMAIN h.used = 1..(n + 1)
      /\ h.used[n + 1] = w /\ \A i \in 1..n : h.used[i] = s[i]
  <2>1. h.used = Append(s, w)
    BY <1>1, PlayedType
  <2> HIDE DEF h, s
  <2> QED
    BY <1>1, <1>2, <2>1
<1>4. n > 0 => LastKana[s[n]] # Nn
  BY <1>1, <1>2 DEF Good, FairlyPlayed, Last
<1>5. n > 0 => LastKana[s[n]] \in {AnyKana, FirstKana[w]}
  BY <1>1, <1>2 DEF Follows, Expected, Last
<1>6. g.turn = IF n % 2 = 0 THEN "ai" ELSE "user"
  BY <1>1 DEF Good, FairlyPlayed
<1>7. /\ LastKana[w] = Nn => h.turn = player /\ h.loser = player
      /\ LastKana[w] # Nn => h.turn = Opponent(player) /\ h.loser = "nobody"
  BY <1>1, PlayedType
<1> HIDE DEF h, n, s
<1>8. Chained(h)
  <2>1. IsInjective(h.used)
    <3>1. \A i, j \in 1..n : s[i] = s[j] => i = j
      BY <1>2 DEF Good, Chained, IsInjective, s
    <3> QED
      BY <1>1, <1>2, <1>3, <3>1 DEF IsInjective
  <2>2. ASSUME NEW i \in 2..Len(h.used)
        PROVE  LastKana[h.used[i - 1]] \in {AnyKana, FirstKana[h.used[i]]}
    <3>1. CASE i = n + 1
      BY <1>2, <1>3, <1>5, <3>1
    <3>2. CASE i \in 2..n
      <4>1. LastKana[s[i - 1]] \in {AnyKana, FirstKana[s[i]]}
        BY <3>2 DEF Good, Chained, s, n
      <4>2. h.used[i - 1] = s[i - 1] /\ h.used[i] = s[i]
        BY <1>2, <1>3, <3>2
      <4> QED
        BY <4>1, <4>2
    <3> QED
      BY <1>2, <1>3, <3>1, <3>2
  <2>3. ASSUME NEW i \in 1..Len(h.used) - 1 PROVE LastKana[h.used[i]] # Nn
    <3>1. i \in 1..n /\ h.used[i] = s[i]
      BY <1>2, <1>3
    <3>2. CASE i = n
      BY <1>2, <1>4, <3>1, <3>2
    <3>3. CASE i # n
      <4>1. i \in 1..n - 1
        BY <1>2, <3>1, <3>3
      <4> QED
        BY <3>1, <4>1 DEF Good, Chained, s, n
    <3> QED
      BY <3>2, <3>3
  <2> QED
    BY <2>1, <2>2, <2>3 DEF Chained
<1>9. FairlyPlayed(h)
  <2>1. ASSUME NEW i \in DOMAIN h.used, i % 2 = 1 PROVE LastKana[h.used[i]] # Nn
    <3>1. CASE i = n + 1
      <4>1. n % 2 = 0
        BY <1>2, <2>1, <3>1
      <4> QED
        BY <1>1, <1>3, <1>6, <3>1, <4>1
    <3>2. CASE i \in 1..n
      BY <1>2, <1>3, <2>1, <3>2 DEF Good, FairlyPlayed, s, n
    <3> QED
      BY <1>2, <1>3, <3>1, <3>2
  <2>2. h.turn = (IF Len(h.used) % 2 = 0 THEN "ai" ELSE "user") \/ h.loser # "nobody"
    <3>1. n % 2 = 0 <=> (n + 1) % 2 # 0
      BY <1>2
    <3> QED
      BY <1>1, <1>3, <1>6, <1>7, <3>1 DEF Opponent, Players
  <2>3. LastKana[Last(h.used)] = Nn => h.loser = "user"
    BY <1>1, <1>2, <1>3, <1>7 DEF Last, Players
  <2> QED
    BY <2>1, <2>2, <2>3 DEF FairlyPlayed
<1> QED
  BY <1>8, <1>9 DEF Good, h

\* The user may give up at any time, the AI only before anyone has lost.
LEMMA SurrenderedGood ==
  ASSUME NEW g \in GameType, Good(g), NEW player \in Players,
         player = "user" \/ g.loser = "nobody"
  PROVE  Good(Surrendered(g, player))
<1> DEFINE h == Surrendered(g, player)
<1>1. g.used # <<>> /\ LastKana[Last(g.used)] = Nn => player = "user"
  BY DEF Good, FairlyPlayed
<1>2. h.used = g.used /\ h.turn = g.turn /\ h.loser = player /\ player # "nobody"
  BY SurrenderedType DEF Players
<1> HIDE DEF h
<1>3. Chained(h)
  BY <1>2 DEF Good, Chained
<1>4. FairlyPlayed(h)
  BY <1>1, <1>2 DEF Good, FairlyPlayed
<1> QED
  BY <1>3, <1>4 DEF Good, h

LEMMA ClosedGood ==
  ASSUME NEW g \in GameType, Good(g), NEW st \in Statuses
  PROVE  Good(Become(g, st)) /\ Good(Canceled(g))
BY BecomeType, CanceledType, SameWords

\* A game that ends, or cannot, keeps the words that ended it.
LEMMA EndsGood ==
  ASSUME NEW g \in GameType, Good(g), Ends(g) \/ Raises(g)
  PROVE  Good(game')
BY ClosedGood DEF Ends, Raises, Statuses

LEMMA ExecutesGood ==
  ASSUME IInv, Good(game), ExecutesNext
  PROVE  Good(game')
<1>1. game \in GameType
  BY DEF IInv, Types
<1>2. CASE Rejects
  BY <1>2 DEF Rejects
<1>3. CASE StartsGame
  BY <1>1, <1>3, StartedGood DEF StartsGame
<1>4. CASE Moves
  <2> DEFINE w == command.with
             verdict == Verdict(game, w, "user")
  <2>1. verdict \in {"valid", "ends_with_n"} =>
           Played(game, w) \in GameType /\ Good(Played(game, w))
    BY <1>1, VerdictOfPlayed, PlayedType, PlayedGood DEF Players
  <2>2. \/ verdict = "valid" /\ game' = Played(game, w)
        \/ verdict = "ends_with_n" /\ Ends(Played(game, w))
        \/ game' = game
    BY <1>4 DEF Moves
  <2> HIDE DEF w, verdict
  <2> QED
    BY <2>1, <2>2, EndsGood
<1>5. CASE Steers
  <2>1. Surrendered(game, "user") \in GameType /\ Good(Surrendered(game, "user"))
    BY <1>1, SurrenderedType, SurrenderedGood DEF Players
  <2>2. ASSUME NEW st \in {"paused", "playing", "canceled"}, Controlled(st)
        PROVE  Good(game')
    BY <1>1, <2>2, ClosedGood, EndsGood DEF Controlled, Statuses
  <2>3. \/ \E st \in {"paused", "playing", "canceled"} : Controlled(st)
        \/ Ends(Surrendered(game, "user"))
    <3>1. command.with \in Controls
      BY <1>5 DEF Steers, Executing, IInv, Step
    <3> QED
      BY <1>5, <3>1 DEF Steers, Controls
  <2> QED
    BY <2>1, <2>2, <2>3, EndsGood
<1> QED
  BY <1>2, <1>3, <1>4, <1>5 DEF ExecutesNext

LEMMA ThinksGood ==
  ASSUME IInv, Good(game), ThinksNext
  PROVE  Good(game')
<1>1. game \in GameType /\ (stage = "thinking" => game.loser = "nobody")
  BY DEF IInv, Types, Step
<1>2. ASSUME NEW w, Verdict(game, w, "ai") = "valid", Stores(Played(game, w))
      PROVE  Good(game')
  BY <1>1, <1>2, PlayedGood DEF Stores, Players
<1>3. CASE \E w \in Words : Replies(w)
  BY <1>2, <1>3 DEF Replies
<1>4. CASE FallsBack
  BY <1>2, <1>4 DEF FallsBack, InStock
<1>5. CASE GivesUp
  <2>1. Surrendered(game, "ai") \in GameType /\ Good(Surrendered(game, "ai"))
    BY <1>1, <1>5, SurrenderedType, SurrenderedGood DEF GivesUp, Thinking, Players
  <2>2. \/ game' = Become(Surrendered(game, "ai"), "completed")
        \/ Raises(Surrendered(game, "ai"))
    BY <1>5 DEF GivesUp, Stores
  <2> QED
    BY <2>1, <2>2, ClosedGood, EndsGood DEF Statuses
<1>6. CASE Misses \/ Speaks
  BY <1>6 DEF Misses, Speaks
<1>7. CASE ModelFails
  BY <1>1, <1>7, EndsGood DEF ModelFails
<1> QED
  BY <1>3, <1>4, <1>5, <1>6, <1>7 DEF ThinksNext

LEMMA GoodKeeps == IInv /\ Good(game) /\ [Next]_vars => Good(game')
<1> SUFFICES ASSUME IInv, Good(game), [Next]_vars PROVE Good(game')
  OBVIOUS
<1>1. game \in GameType
  BY DEF IInv, Types
<1>2. CASE UNCHANGED vars \/ Expires \/ HearsNext
  BY <1>2 DEF vars, Expires, HearsNext, Confirms, Declines, Revises, Considers, Hears
<1>3. CASE RepliesNext \/ EvaluatesNext
  BY <1>3 DEF RepliesNext, Adopts, Refuses, ReplacesSafely, Drafting,
              EvaluatesNext, Asks, Converses, Decides, Evaluated
<1>4. CASE InterpretsNext
  BY <1>1, <1>4, ClosedGood DEF InterpretsNext, Dismisses, RollsBack, Begins, Statuses
<1>5. CASE Synchronizes
  <2>1. game' = [game EXCEPT !.linked = @ \/ (~TurnStarted /\ Active(game))]
    BY <1>5 DEF Synchronizes
  <2>2. game'.used = game.used /\ game'.turn = game.turn /\ game'.loser = game.loser
    BY <1>1, <2>1 DEF GameType
  <2> QED
    BY <2>2, SameWords
<1> QED
  BY <1>2, <1>3, <1>4, <1>5, ExecutesGood, ThinksGood DEF Next, TurnNext

\* Whatever the models answer, the words played are a chain without a repetition,
\* and only the user ends a game by a bad word (validate_shiritori_word).
THEOREM ChainCorrect == Spec => []ChainHolds
<1>1. Init => ChainHolds
  BY EmptyGood DEF Init, NoGame, Good, ChainHolds
<1>2. IInv /\ ChainHolds /\ [Next]_vars => ChainHolds'
  BY GoodKeeps DEF Good, ChainHolds
<1> QED
  BY <1>1, <1>2, Invariant, PTL DEF Spec

===============================================================================
