-------------------------- MODULE MCActivityManager --------------------------
(***************************************************************************)
(* Five Activities: two autonomous talks, which tie in priority and are    *)
(* what a conversation discards, a conversation, a streaming Activity that *)
(* outranks it, and an idle observation that everything outranks.          *)
(***************************************************************************)
EXTENDS ActivityManager, TLC

CONSTANTS u1, x1, a1, a2, i1

MCActivity == {u1, x1, a1, a2, i1}
MCKindOf == (u1 :> "conversation") @@ (x1 :> "explicit") @@ (a1 :> "autonomous") @@ (a2 :> "autonomous") @@ (i1 :> "idle")
=============================================================================
