------------------------- MODULE MCRuntimeActivities -------------------------
(***************************************************************************)
(* Small casts of Activities for RuntimeActivities.  A console session has *)
(* the start-up reaction, USER_TEXTs and autonomous talk, all handled by   *)
(* the coordinator's loop and the two threads; a streaming session also    *)
(* has Activities of the streaming plugin in tasks of their own.           *)
(***************************************************************************)
EXTENDS RuntimeActivities, TLC

CONSTANTS u1, s1, x1, a1, a2

Cast == (u1 :> "conversation") @@ (s1 :> "startup") @@ (x1 :> "explicit")
        @@ (a1 :> "autonomous") @@ (a2 :> "autonomous")

Console == {u1, s1, a1, a2}
ConsoleKindOf == [a \in Console |-> Cast[a]]

Streaming == {u1, x1, a1, a2}
StreamingKindOf == [a \in Streaming |-> Cast[a]]
=============================================================================
