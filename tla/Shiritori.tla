------------------------------- MODULE Shiritori -------------------------------
(***************************************************************************)
(* A game of shiritori: the session GameEngine keeps, the rules of          *)
(* domain/games/shiritori.py and the steps of ShiritoriGameService, as      *)
(* operators over one game.  A word is its first and its last kana.         *)
(***************************************************************************)
EXTENDS Naturals, Sequences, SequencesExt

CONSTANTS
    Words,
    FirstKana, LastKana,    \* get_shiritori_head, get_shiritori_tail
    AnyKana,                \* the tail of a word of long vowels: None
    Nn,                     \* the kana a word loses by when it ends with it
    Fallbacks,              \* the words the service has in stock
    NoWord                  \* what is not a word of kana

ASSUME WordsAssumption ==
    /\ NoWord \notin Words /\ Fallbacks \subseteq Words
    /\ DOMAIN FirstKana = Words /\ DOMAIN LastKana = Words
    /\ \A w \in Words : FirstKana[w] # AnyKana
    /\ \A w \in Fallbacks : LastKana[w] # Nn

Players == {"user", "ai"}
Statuses == {"none", "playing", "paused", "completed", "canceled"}

Opponent(player) == IF player = "user" THEN "ai" ELSE "user"

\* Before any session.
NoGame == [id |-> 0, status |-> "none", turn |-> "ai", used |-> <<>>,
           loser |-> "nobody", linked |-> FALSE]

\* get_active_session
Active(g) == g.status \in {"playing", "paused"}

\* GameSession.transition: what each status may become; the rest raises.
MayBecome(g, status) ==
    <<g.status, status>> \in {<<"playing", "paused">>, <<"playing", "completed">>,
                              <<"playing", "canceled">>, <<"paused", "playing">>,
                              <<"paused", "canceled">>}

Become(g, status) == [g EXCEPT !.status = status]

\* start_game: the AI begins.
Started(g) == [NoGame EXCEPT !.id = g.id + 1, !.status = "playing"]

\* cancel_game, where there is an active session.
Canceled(g) == IF Active(g) THEN Become(g, "canceled") ELSE g

-----------------------------------------------------------------------------
\* validate_shiritori_word

Expected(g) == IF g.used = <<>> THEN AnyKana ELSE LastKana[Last(g.used)]

\* The kana the word has to begin with.
Follows(g, w) == Expected(g) \in {AnyKana, FirstKana[w]}

\* Mutant: a word may be played twice.
VerdictForgetful(g, w, player) ==
    IF g.loser # "nobody" THEN "game_finished"
    ELSE IF g.turn # player THEN "not_turn"
    ELSE IF w \notin Words THEN "invalid_word"
    ELSE IF ~Follows(g, w) THEN "invalid_head"
    ELSE IF LastKana[w] = Nn THEN "ends_with_n" ELSE "valid"

Verdict(g, w, player) ==
    IF g.loser # "nobody" THEN "game_finished"
    ELSE IF g.turn # player THEN "not_turn"
    ELSE IF w \notin Words THEN "invalid_word"
    ELSE IF ~Follows(g, w) THEN "invalid_head"
    ELSE IF w \in Range(g.used) THEN "already_used"
    ELSE IF LastKana[w] = Nn THEN "ends_with_n" ELSE "valid"

\* The state a word leads to that is VALID or ENDS_WITH_N.
Played(g, w) ==
    IF LastKana[w] = Nn THEN [g EXCEPT !.used = Append(@, w), !.loser = g.turn]
    ELSE [g EXCEPT !.used = Append(@, w), !.turn = Opponent(@)]

\* surrender and the end of generate_ai_turn
Surrendered(g, player) == [g EXCEPT !.loser = player]

-----------------------------------------------------------------------------
\* What is said of a game that has been played so far.

\* Each word begins with the kana the one before ended with, none comes twice,
\* and none but the last may end with the kana no word begins with.
Chained(g) ==
    /\ IsInjective(g.used)
    /\ \A i \in 2..Len(g.used) :
        LastKana[g.used[i - 1]] \in {AnyKana, FirstKana[g.used[i]]}
    /\ \A i \in 1..Len(g.used) - 1 : LastKana[g.used[i]] # Nn

\* The AI has the odd words and never loses by one, and who ended a game with a
\* bad word is its loser.
FairlyPlayed(g) ==
    /\ \A i \in DOMAIN g.used : i % 2 = 1 => LastKana[g.used[i]] # Nn
    /\ g.turn = (IF Len(g.used) % 2 = 0 THEN "ai" ELSE "user") \/ g.loser # "nobody"
    /\ g.used # <<>> /\ LastKana[Last(g.used)] = Nn => g.loser = "user"

GameType ==
    [id : Nat, status : Statuses, turn : Players, used : Seq(Words),
     loser : Players \cup {"nobody"}, linked : BOOLEAN]
================================================================================
