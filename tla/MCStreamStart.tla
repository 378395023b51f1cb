----------------------------- MODULE MCStreamStart -----------------------------
(* Two preparations, starts and retries of operators, and two sessions.    *)
EXTENDS StreamStart

CONSTANTS p1, p2, p3, s1, s2, r1, r2

InOrder == {<<p1, p2>>, <<s1, s2>>, <<r1, r2>>}
================================================================================
