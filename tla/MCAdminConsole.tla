----------------------------- MODULE MCAdminConsole -----------------------------
(* One console; the consoles share nothing but the log.                       *)
EXTENDS AdminConsole

CONSTANTS c1

SomeSnapshots == {3}
SomeUndated == {2}
================================================================================
