--------------------------- MODULE MCGameConversation ---------------------------
(* Three words and one kana more than they need; nine texts: each kind of answer, *)
(* two of them words of the game as well, and each control; drafts of one claim   *)
(* or none, whose report may be of another.                                       *)
EXTENDS GameConversation

CONSTANTS Ka, Me, Ame, Meka, Men

MCWords == {Ame, Meka, Men}
MCFirst == [w \in MCWords |-> IF w = Ame THEN Ka ELSE Me]
MCLast == [w \in MCWords |-> IF w = Ame THEN Me ELSE IF w = Meka THEN Ka ELSE Nn]
MCFallbacks == {Ame}

Says(answer, w) == [answer |-> answer, says |-> w, control |-> "none"]
Wants(c) == [answer |-> "ambiguous", says |-> NoWord, control |-> c]

MCTexts ==
    {Says("yes", Meka), Says("no", NoWord), Says("new_request", NoWord),
     Says("clarification", NoWord), Says("ambiguous", Men)}
    \cup {Wants(c) : c \in Controls}

\* The speech makes no claim or one of five, and the report agrees or not.
MCDrafts ==
    [says : {{}} \cup {{c} : c \in {"started", "running", "continued", "completed", "canceled"}},
     reports : {{r} : r \in {"conversation_only", "running", "continues", "completed",
                             "started", "execution_unavailable", "canceled"}},
     details : {{}, {[operation |-> "any", status |-> "waiting_input"]}}]
================================================================================
