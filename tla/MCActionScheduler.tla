------------------------- MODULE MCActionScheduler -------------------------
(* A reply and a stream Activity on the main loop, two autonomous talks on *)
(* the executor thread.                                                    *)
EXTENDS ActionScheduler

CONSTANTS reply, scene, talk1, talk2

MCPriority == [u \in Unit |-> CASE u = reply -> 100 [] u = scene -> 50 [] OTHER -> 10]
=============================================================================
