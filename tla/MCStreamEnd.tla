----------------------------- MODULE MCStreamEnd -----------------------------
(* Commands of operators who do not know of each other.                    *)
EXTENDS StreamEnd

CONSTANTS n1, n2, e1
=============================================================================
