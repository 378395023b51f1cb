---------------------------- MODULE CharacterResponse ----------------------------
(***************************************************************************)
(* What the character may say of an activity: ResponseContextBuilder makes *)
(* a context of the facts, the character's model writes a draft that says  *)
(* something and reports which claims it makes, and ResponseValidator      *)
(* holds both against the context.                                         *)
(*                                                                         *)
(* A draft is the set of claims IndependentClaimExtractor finds in the     *)
(* speech, and those the model reports of it.                              *)
(***************************************************************************)
EXTENDS Naturals

CONSTANTS
    Drafts      \* records [says, reports, details]

Positive == {"started", "running", "continued", "completed", "succeeded", "result_obtained"}
Completion == {"completed", "succeeded", "result_obtained"}
Negative == {"failed", "rejected", "canceled", "unavailable"}

Claims == Positive \cup Negative \cup {"requested", "available", "conversation_only"}

\* Claims that are reported under an older name.
Synonyms == [continues |-> "continued", execution_unavailable |-> "unavailable"]

Reports == Claims \cup DOMAIN Synonyms

ExecutionStatuses == {"waiting_input", "succeeded", "rejected", "canceled"}

\* A detail of a report names the operation and the status it is about, or not.
Details == [operation : {"start", "continue", "stop", "none", "any"},
            status : ExecutionStatuses \cup {"any"}]

ASSUME DraftsAssumption ==
    \A d \in Drafts :
        d.says \subseteq Claims /\ d.reports \subseteq Reports /\ d.details \subseteq Details

-----------------------------------------------------------------------------
\* A ResponseContext: of a confirmation or not, the operation, what became of it,
\* how the OngoingActivity stands, whether it was kept, and whether the text was
\* taken for conversation beside it.
Context(confirms, operation, status, ongoing, kept, aside) ==
    [confirms |-> confirms, operation |-> operation, status |-> status,
     ongoing |-> ongoing, kept |-> kept, aside |-> aside]

NoContext == Context(FALSE, "none", "waiting_input", "none", FALSE, FALSE)

\* _claims_for.  What it forbids is never allowed as well.
WhileOngoing(c) == IF c.ongoing \in {"active", "waiting"}
                   THEN {"running", "continued", "continues"} ELSE {}

WhenStarted(c) == IF c.operation = "start" THEN {"started"} ELSE {}

Refusal == {"unavailable", "execution_unavailable", "conversation_only"}

Allowed(c) ==
    IF c.confirms THEN {"conversation_only"}
    ELSE CASE c.status = "rejected" -> {"rejected"} \cup Refusal
           [] c.status = "canceled" -> {"canceled"} \cup Refusal
           [] c.status = "succeeded" -> Completion \cup WhenStarted(c) \cup WhileOngoing(c)
           [] c.status = "waiting_input" ->
                  {"requested", "conversation_only"} \cup WhileOngoing(c)
                  \cup IF WhileOngoing(c) = {} THEN {} ELSE WhenStarted(c)

-----------------------------------------------------------------------------
\* DeterministicFactValidator

Reported(d) == (d.reports \cap Claims)
               \cup {Synonyms[r] : r \in d.reports \cap DOMAIN Synonyms}

\* _fact_conflicts
StatusRefutes(c) ==
    CASE c.status = "rejected" -> Positive
      [] c.status = "canceled" -> Positive \ {"started"}
      [] c.status = "waiting_input" -> Completion
      [] c.status = "succeeded" -> {}

OngoingRefutes(c) ==
    CASE c.ongoing = "waiting" -> Completion
      [] c.ongoing \in {"completed", "canceled"} -> {"running", "continued"}
      [] OTHER -> {}

\* Mutant: only what became of the operation counts.
RefutedByStatus(c) == StatusRefutes(c)

Refuted(c) == StatusRefutes(c) \cup OngoingRefutes(c)

\* _claim_differences
Differ(said, reported) ==
    LET positive == said \cap Positive # {}
        admits == reported \cap Positive # {}
    IN  \/ positive # admits
        \/ positive /\ reported \cap (Negative \cup {"conversation_only"}) # {}
        \/ said \cap Negative # {} /\ admits
        \/ "running" \in said /\ reported \cap Completion # {}
        \/ said \cap Completion # {} /\ "continued" \in reported

\* _transition_conflicts, but for those that another check meets or no plan leads to
Misjudges(c, said) ==
    \/ c.kept /\ said \cap {"completed", "canceled"} # {}
    \/ c.aside /\ said \cap Positive # {}

\* _structured_claim_differences
Contradicts(c, d) ==
    \E detail \in d.details : \/ detail.operation \notin {c.operation, "any"}
                              \/ detail.status \notin {c.status, "any"}

\* validate
Holds(c, d, said) ==
    /\ d.reports \subseteq Allowed(c)
    /\ said \cap Refuted(c) = {}
    /\ ~Differ(said, Reported(d)) /\ ~Contradicts(c, d) /\ ~Misjudges(c, said)

\* ResponseValidator.validate.  Its model is asked only when the facts hold, and
\* what it finds, or that it fails, can only have the draft refused.
Adoptable(c, d) == Holds(c, d, d.says)

\* _safe_fallback: what is found in it.  Nobody validates it.
Fallback(c) == IF c.status \in {"rejected", "canceled"} THEN {"unavailable"} ELSE {}
================================================================================
