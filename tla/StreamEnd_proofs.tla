---------------------------- MODULE StreamEnd_proofs ----------------------------
(***************************************************************************)
(* Theorems about StreamEnd, for any number of normal ends and emergency   *)
(* stops.                                                                  *)
(*                                                                         *)
(* The inductive invariant follows the holder of the lock: the session's   *)
(* status is the one its stage has brought about (Stage), what its earlier *)
(* calls stopped stays stopped (Reached), and a session that is ending and *)
(* is not in the holder's hands has an emergency stop in the queue, which  *)
(* is what cancelled the normal end (Locking, InHand).                     *)
(***************************************************************************)
EXTENDS StreamEnd, TLAPS

Held == {"ready", "closing"} \cup Calls

EmergencyWaits == \E i \in DOMAIN queue : queue[i] \in Emergency

\* Who has the lock, who is cancelled, and whom an emergency stop would cancel.
Locking ==
    /\ \A c \in Command : pc[c] \in Held <=> lock = c
    /\ \A c \in Command : cancelled[c] =>
          /\ c \in Normal
          /\ \/ pc[c] = "queued"
             \/ lock = c /\ EmergencyWaits
    /\ normalTask # NoCommand => pc[normalTask] \in Held \cup {"queued"}

\* The status of the session while a command is at work on it.
Stage ==
    \A c \in Command :
        /\ pc[c] = "closing" => c \in Normal /\ status = "CLOSING"
        /\ pc[c] = "late" => c \in Emergency
        /\ pc[c] \in Calls => status = IF c \in Normal THEN "STOPPING" ELSE "EMERGENCY_STOPPING"

\* What the calls that were made before have stopped.
Reached ==
    /\ \A n \in Normal :
          /\ pc[n] \in Calls => closing = "COMPLETED"
          /\ pc[n] \in {"obs", "confirm"} => broadcast = "complete"
          /\ pc[n] = "confirm" => obs = "idle"
    /\ \A e \in Emergency :
          /\ pc[e] \in {"broadcast", "confirm"} => obs = "idle"
          /\ pc[e] = "confirm" => broadcast = "complete"

\* Who will see to a session that is ending.
InHand ==
    /\ status = "EMERGENCY_STOPPING" => \E e \in Emergency : pc[e] \in Calls
    /\ status \in Ending =>
          \/ \E n \in Normal : pc[n] \in {"closing"} \cup Calls
          \/ \E e \in Emergency : pc[e] = "ready"
          \/ EmergencyWaits

IInv ==
    /\ TypeOK /\ Locking /\ Stage /\ Reached /\ InHand
    /\ FinishedMeansStopped /\ SuccessMatchesStatus

\* A waiter that is cancelled leaves its place in s, and the others stay.
LEMMA OthersStay ==
  ASSUME NEW T, NEW s \in Seq(T), NEW i \in DOMAIN s
  PROVE  /\ RemoveAt(s, i) \in Seq(T)
         /\ \A j \in DOMAIN s : j # i =>
               \E k \in DOMAIN RemoveAt(s, i) : RemoveAt(s, i)[k] = s[j]
<1> DEFINE l == SubSeq(s, 1, i - 1)
           r == SubSeq(s, i + 1, Len(s))
<1>1. i \in 1 .. Len(s) /\ Len(s) \in Nat OBVIOUS
<1>2. l \in Seq(T) /\ Len(l) = i - 1 /\ \A j \in 1 .. i - 1 : l[j] = s[j]
  BY <1>1
<1>3. r \in Seq(T) /\ Len(r) = Len(s) - i /\ \A j \in 1 .. Len(s) - i : r[j] = s[i + j]
  BY <1>1
<1>4. RemoveAt(s, i) = l \o r BY DEF RemoveAt
<1> HIDE DEF l, r
<1>5. l \o r \in Seq(T) /\ DOMAIN (l \o r) = 1 .. Len(s) - 1
  BY <1>1, <1>2, <1>3
<1>6. ASSUME NEW j \in DOMAIN s, j # i
      PROVE  \E k \in DOMAIN (l \o r) : (l \o r)[k] = s[j]
  <2>1. CASE j < i
    <3>1. j \in DOMAIN (l \o r) /\ (l \o r)[j] = s[j] BY <1>1, <1>2, <1>3, <1>5, <2>1
    <3> QED BY <3>1
  <2>2. CASE j > i
    <3>1. j - i \in 1 .. Len(s) - i /\ (j - 1) - Len(l) = j - i BY <1>1, <1>2, <2>2
    <3>2. r[j - i] = s[j] BY <1>1, <1>3, <3>1
    <3>3. j - 1 \in DOMAIN (l \o r) /\ (l \o r)[j - 1] = r[(j - 1) - Len(l)]
      BY <1>1, <1>2, <1>3, <1>5, <2>2
    <3> QED BY <3>1, <3>2, <3>3
  <2> QED BY <1>1, <1>6, <2>1, <2>2
<1> QED BY <1>4, <1>5, <1>6

\* Behind the first element everything stays.
LEMMA TailStays ==
  ASSUME NEW T, NEW s \in Seq(T), NEW j \in DOMAIN s, s[j] # Head(s)
  PROVE  \E k \in DOMAIN Tail(s) : Tail(s)[k] = s[j]
<1>1. j # 1 /\ s # <<>>
  OBVIOUS
<1>2. j - 1 \in DOMAIN Tail(s) /\ Tail(s)[j - 1] = s[j]
  BY <1>1
<1> QED BY <1>2

-----------------------------------------------------------------------------
LEMMA CommandsApart ==
  /\ Normal \subseteq Command /\ Emergency \subseteq Command
  /\ Normal \cap Emergency = {} /\ NoCommand \notin Command
  /\ \A c \in Command : c \in Normal \/ c \in Emergency
  BY CommandAssumption DEF Command

LEMMA InitIsGood == Init => IInv
<1> SUFFICES ASSUME Init PROVE IInv
  OBVIOUS
<1>1. TypeOK
  <2>1. queue \in Seq(Command) /\ lock \in Command \cup {NoCommand}
        /\ normalTask \in Normal \cup {NoCommand}
    BY DEF Init
  <2>2. pc \in [Command -> {"new", "read", "queued", "ready", "closing", "done"} \cup Calls]
        /\ outcome \in [Command -> {"none", "succeeded", "failed", "rejected", "cancelled"}]
    BY DEF Init
  <2>3. expected \in [Command -> Nat] /\ arrived \in [Command -> Nat]
        /\ cancelled \in [Command -> BOOLEAN]
    BY DEF Init
  <2>4. status \in Statuses
    BY DEF Init, Statuses
  <2> QED BY <2>1, <2>2, <2>3, <2>4 DEF Init, TypeOK
<1>2. Locking /\ Stage /\ Reached
  BY CommandsApart DEF Init, Locking, Held, Calls, Stage, Reached
<1>3. InHand /\ FinishedMeansStopped /\ SuccessMatchesStatus
  BY DEF Init, InHand, Ending, FinishedMeansStopped, Finished, SuccessMatchesStatus
<1> QED BY <1>1, <1>2, <1>3 DEF IInv

\* While c has the lock nobody else is at work.
LEMMA Alone ==
  ASSUME IInv, NEW c \in Command, pc[c] \in Held
  PROVE  lock = c /\ \A d \in Command : d # c => pc[d] \notin Held
  BY DEF IInv, Locking

\* The holder goes on, or leaves.
LEMMA ContinueKeepsLocking ==
  ASSUME IInv, NEW c \in Command, pc[c] \in Held, NEW step \in Held, Continue(c, step)
  PROVE  Locking'
<1>1. pc'[c] = step /\ \A d \in Command : d # c => pc'[d] = pc[d]
  BY DEF Continue, Goto, IInv, TypeOK
<1>2. UNCHANGED <<lock, queue, normalTask, cancelled>>
  BY DEF Continue, lockVars
<1>3. \A d \in Command : pc'[d] \in Held <=> lock' = d
  BY <1>1, <1>2 DEF IInv, Locking
<1>4. "queued" \notin Held
  BY DEF Held, Calls
<1>5. ASSUME NEW d \in Command, cancelled'[d]
      PROVE  d \in Normal /\ (pc'[d] = "queued" \/ (lock' = d /\ EmergencyWaits'))
  BY <1>1, <1>2, <1>4, <1>5 DEF IInv, Locking, EmergencyWaits
<1>6. normalTask' # NoCommand => pc'[normalTask'] \in Held \cup {"queued"}
  <2>1. normalTask # NoCommand => normalTask \in Command
    BY CommandsApart DEF IInv, TypeOK
  <2> QED BY <1>1, <1>2, <2>1 DEF IInv, Locking
<1> QED BY <1>3, <1>5, <1>6 DEF Locking

LEMMA LeaveKeepsLocking ==
  ASSUME IInv, NEW c \in Command, pc[c] \in Held, NEW result, Leave(c, result)
  PROVE  Locking'
<1>1. pc' = [pc EXCEPT ![c] = "done"] /\ cancelled' = [cancelled EXCEPT ![c] = FALSE]
      /\ lock' = NoCommand /\ queue' = queue
      /\ normalTask' = IF normalTask = c THEN NoCommand ELSE normalTask
  BY DEF Leave, Goto
<1>2. pc \in [Command -> {"new", "read", "queued", "ready", "closing", "done"} \cup Calls]
      /\ cancelled \in [Command -> BOOLEAN] /\ normalTask \in Normal \cup {NoCommand}
  BY DEF IInv, TypeOK
<1>3. lock = c
  BY Alone
<1>4. "done" \notin Held
  BY DEF Held, Calls
<1>5. /\ pc'[c] = "done" /\ ~cancelled'[c]
      /\ \A d \in Command : d # c => pc'[d] = pc[d] /\ cancelled'[d] = cancelled[d]
  BY <1>1, <1>2
<1>6. \A d \in Command : pc'[d] \in Held <=> lock' = d
  BY <1>1, <1>3, <1>4, <1>5, CommandsApart DEF IInv, Locking
<1>7. \A d \in Command : cancelled'[d] => d \in Normal /\ pc'[d] = "queued"
  BY <1>3, <1>5 DEF IInv, Locking
<1>8. normalTask' # NoCommand => pc'[normalTask'] \in Held \cup {"queued"}
  BY <1>1, <1>2, <1>5, CommandsApart DEF IInv, Locking
<1> QED BY <1>6, <1>7, <1>8 DEF Locking

\* The types of what a holder's step leaves behind.
LEMMA ContinueKeepsTypes ==
  ASSUME IInv, NEW c \in Command, NEW step \in Held, Continue(c, step),
         status' \in Statuses, version' \in Nat, main' = main,
         closing' \in {"none", "RUNNING", "COMPLETED", "FAILED"},
         speech' \in {"none", "planning", "output", "canceled"},
         obs' \in {"active", "idle"}, broadcast' \in {"live", "complete"}
  PROVE  TypeOK'
<1>1. pc' \in [Command -> {"new", "read", "queued", "ready", "closing", "done"} \cup Calls]
  BY DEF Continue, Goto, IInv, TypeOK, Held
<1>2. UNCHANGED <<lock, queue, normalTask, cancelled, outcome, stopped, expected, arrived>>
  BY DEF Continue, lockVars, clientVars
<1> QED BY <1>1, <1>2 DEF IInv, TypeOK

Results == {"none", "succeeded", "failed", "rejected", "cancelled"}

LEMMA LeaveKeepsTypes ==
  ASSUME IInv, NEW c \in Command, NEW result \in Results, Leave(c, result),
         status' \in Statuses, version' \in Nat, main' = main,
         closing' \in {"none", "RUNNING", "COMPLETED", "FAILED"},
         speech' \in {"none", "planning", "output", "canceled"},
         obs' \in {"active", "idle"}, broadcast' \in {"live", "complete"}
  PROVE  TypeOK'
<1>1. pc' \in [Command -> {"new", "read", "queued", "ready", "closing", "done"} \cup Calls]
      /\ cancelled' \in [Command -> BOOLEAN] /\ outcome' \in [Command -> Results]
  BY DEF Leave, Goto, IInv, TypeOK, Results
<1>2. lock' = NoCommand /\ normalTask' \in Normal \cup {NoCommand}
      /\ UNCHANGED <<queue, stopped, expected, arrived>>
  BY DEF Leave, clientVars, IInv, TypeOK
<1> QED BY <1>1, <1>2 DEF IInv, TypeOK, Results

\* Once a session is finished nobody is at work on it.
LEMMA FinishedIsIdle ==
  ASSUME IInv, status \in Finished, NEW c \in Command
  PROVE  pc[c] \notin {"closing"} \cup Calls
  BY CommandsApart DEF IInv, Stage, Finished

\* While a command is at work or the session can still be ended, none has ended it.
LEMMA NotFinished ==
  ASSUME IInv, status \notin Finished, NEW c \in Command
  PROVE  outcome[c] # "succeeded"
  BY CommandsApart DEF IInv, SuccessMatchesStatus, Finished

-----------------------------------------------------------------------------
\* The validation of a command

LEMMA RejectNormalKeeps ==
  ASSUME IInv, NEW n \in Normal, RejectNormal(n) PROVE IInv'
<1>0. n \in Command /\ pc[n] = "ready" /\ pc[n] \in Held /\ Leave(n, "rejected")
      /\ UNCHANGED <<status, version, main, closing, speech, obs, broadcast>>
  BY CommandsApart DEF RejectNormal, Held, sessionVars, closingVars, worldVars
<1>1. TypeOK'
  BY <1>0, LeaveKeepsTypes DEF IInv, TypeOK, Results
<1>2. Locking'
  BY <1>0, LeaveKeepsLocking
<1>3. pc' = [pc EXCEPT ![n] = "done"] /\ outcome' = [outcome EXCEPT ![n] = "rejected"] /\ queue' = queue
  BY <1>0 DEF Leave, Goto
<1>4. Stage' /\ Reached'
  BY <1>0, <1>3, CommandsApart DEF IInv, TypeOK, Stage, Reached, Calls
<1>5. InHand'
  BY <1>0, <1>3, CommandsApart DEF IInv, TypeOK, InHand, Calls, EmergencyWaits
<1>6. FinishedMeansStopped' /\ SuccessMatchesStatus'
  BY <1>0, <1>3 DEF IInv, TypeOK, FinishedMeansStopped, SuccessMatchesStatus
<1> QED BY <1>1, <1>2, <1>4, <1>5, <1>6 DEF IInv

LEMMA BeginClosingKeeps ==
  ASSUME IInv, NEW n \in Normal, BeginClosing(n) PROVE IInv'
<1>0. n \in Command /\ pc[n] = "ready" /\ pc[n] \in Held /\ status = "LIVE"
      /\ UNCHANGED <<obs, broadcast>>
  BY CommandsApart DEF BeginClosing, AcceptsNormal, Held, worldVars
<1>1. \A d \in Command : d # n => pc[d] \notin Held
  BY <1>0, Alone
<1>2. \A d \in Command : outcome[d] # "succeeded"
  BY <1>0, NotFinished DEF Finished
<1>3. CASE SetStatus("CLOSING", 2) /\ closing' = "RUNNING" /\ speech' = "planning"
           /\ Continue(n, "closing")
  <2>1. TypeOK'
    BY <1>0, <1>3, ContinueKeepsTypes DEF IInv, TypeOK, Statuses, SetStatus, Held
  <2>2. Locking'
    BY <1>0, <1>3, ContinueKeepsLocking DEF Held
  <2>3. pc' = [pc EXCEPT ![n] = "closing"] /\ outcome' = outcome /\ queue' = queue
        /\ status' = "CLOSING"
    BY <1>3 DEF Continue, Goto, lockVars, SetStatus
  <2>4. Stage' /\ Reached' /\ InHand'
    BY <1>0, <1>1, <2>3, CommandsApart DEF IInv, TypeOK, Stage, Reached, InHand, Calls, Held
  <2>5. FinishedMeansStopped' /\ SuccessMatchesStatus'
    BY <1>2, <2>3 DEF FinishedMeansStopped, SuccessMatchesStatus, Finished
  <2> QED BY <2>1, <2>2, <2>4, <2>5 DEF IInv
<1>4. CASE SetStatus("STOP_FAILED", 3) /\ Leave(n, "failed") /\ UNCHANGED closingVars
  <2>1. TypeOK'
    BY <1>0, <1>4, LeaveKeepsTypes DEF IInv, TypeOK, Statuses, SetStatus, Results, closingVars
  <2>2. Locking'
    BY <1>0, <1>4, LeaveKeepsLocking
  <2>3. pc' = [pc EXCEPT ![n] = "done"] /\ outcome' = [outcome EXCEPT ![n] = "failed"]
        /\ status' = "STOP_FAILED"
    BY <1>4 DEF Leave, Goto, SetStatus
  <2>4. Stage' /\ Reached' /\ InHand'
    BY <1>0, <1>1, <2>3, CommandsApart DEF IInv, TypeOK, Stage, Reached, InHand, Calls, Held, Ending
  <2>5. FinishedMeansStopped' /\ SuccessMatchesStatus'
    BY <1>2, <2>3 DEF IInv, TypeOK, FinishedMeansStopped, SuccessMatchesStatus, Finished
  <2> QED BY <2>1, <2>2, <2>4, <2>5 DEF IInv
<1> QED BY <1>3, <1>4 DEF BeginClosing

LEMMA ResumeStopKeeps ==
  ASSUME IInv, NEW n \in Normal, ResumeStop(n) PROVE IInv'
<1>0. n \in Command /\ pc[n] = "ready" /\ pc[n] \in Held /\ status = "STOP_FAILED"
      /\ UNCHANGED <<closing, speech, obs, broadcast>>
  BY CommandsApart DEF ResumeStop, AcceptsNormal, Held, worldVars, closingVars
<1>1. \A d \in Command : d # n => pc[d] \notin Held
  BY <1>0, Alone
<1>2. \A d \in Command : outcome[d] # "succeeded"
  BY <1>0, NotFinished DEF Finished
<1>3. CASE closing = "COMPLETED" /\ SetStatus("STOPPING", 1) /\ Continue(n, "broadcast")
  <2>1. TypeOK'
    BY <1>0, <1>3, ContinueKeepsTypes DEF IInv, TypeOK, Statuses, SetStatus, Held, Calls
  <2>2. Locking'
    BY <1>0, <1>3, ContinueKeepsLocking DEF Held, Calls
  <2>3. pc' = [pc EXCEPT ![n] = "broadcast"] /\ outcome' = outcome /\ status' = "STOPPING"
    BY <1>3 DEF Continue, Goto, SetStatus
  <2>4. Stage' /\ Reached' /\ InHand'
    BY <1>0, <1>1, <1>3, <2>3, CommandsApart DEF IInv, TypeOK, Stage, Reached, InHand, Calls, Held
  <2>5. FinishedMeansStopped' /\ SuccessMatchesStatus'
    BY <1>2, <2>3 DEF FinishedMeansStopped, SuccessMatchesStatus, Finished
  <2> QED BY <2>1, <2>2, <2>4, <2>5 DEF IInv
<1>4. CASE Leave(n, "failed") /\ UNCHANGED sessionVars
  <2>1. TypeOK'
    BY <1>0, <1>4, LeaveKeepsTypes DEF IInv, TypeOK, Results, sessionVars
  <2>2. Locking'
    BY <1>0, <1>4, LeaveKeepsLocking
  <2>3. pc' = [pc EXCEPT ![n] = "done"] /\ outcome' = [outcome EXCEPT ![n] = "failed"]
        /\ status' = "STOP_FAILED"
    BY <1>0, <1>4 DEF Leave, Goto, sessionVars
  <2>4. Stage' /\ Reached' /\ InHand'
    BY <1>0, <1>1, <2>3, CommandsApart DEF IInv, TypeOK, Stage, Reached, InHand, Calls, Held, Ending
  <2>5. FinishedMeansStopped' /\ SuccessMatchesStatus'
    BY <1>2, <2>3 DEF IInv, TypeOK, FinishedMeansStopped, SuccessMatchesStatus, Finished
  <2> QED BY <2>1, <2>2, <2>4, <2>5 DEF IInv
<1> QED BY <1>3, <1>4 DEF ResumeStop

LEMMA BeginEmergencyKeeps ==
  ASSUME IInv, NEW e \in Emergency, BeginEmergency(e) PROVE IInv'
<1>0. e \in Command /\ pc[e] = "ready" /\ pc[e] \in Held
      /\ UNCHANGED <<closing, speech, obs, broadcast>>
  BY CommandsApart DEF BeginEmergency, Held, worldVars, closingVars
<1>1. \A d \in Command : d # e => pc[d] \notin Held
  BY <1>0, Alone
<1>3. CASE AcceptsEmergency(e) /\ SetStatus("EMERGENCY_STOPPING", 2) /\ Continue(e, "obs")
  <2>1. TypeOK'
    BY <1>0, <1>3, ContinueKeepsTypes DEF IInv, TypeOK, Statuses, SetStatus, Held, Calls
  <2>2. Locking'
    BY <1>0, <1>3, ContinueKeepsLocking DEF Held, Calls
  <2>3. pc' = [pc EXCEPT ![e] = "obs"] /\ outcome' = outcome /\ status' = "EMERGENCY_STOPPING"
    BY <1>3 DEF Continue, Goto, SetStatus
  <2>4. Stage' /\ Reached' /\ InHand'
    BY <1>0, <1>1, <2>3, CommandsApart
    DEF IInv, TypeOK, Stage, Reached, InHand, Calls, Held, Ending
  <2>5. \A d \in Command : outcome[d] # "succeeded"
    BY <1>3, NotFinished DEF AcceptsEmergency, Finished, Ending
  <2>6. FinishedMeansStopped' /\ SuccessMatchesStatus'
    BY <2>3, <2>5 DEF FinishedMeansStopped, SuccessMatchesStatus, Finished
  <2> QED BY <2>1, <2>2, <2>4, <2>6 DEF IInv
<1>4. CASE ~AcceptsEmergency(e) /\ Leave(e, "rejected") /\ UNCHANGED sessionVars
  <2>1. TypeOK'
    BY <1>0, <1>4, LeaveKeepsTypes DEF IInv, TypeOK, Results, sessionVars
  <2>2. Locking'
    BY <1>0, <1>4, LeaveKeepsLocking
  <2>3. pc' = [pc EXCEPT ![e] = "done"] /\ outcome' = [outcome EXCEPT ![e] = "rejected"]
        /\ status' = status /\ queue' = queue
    BY <1>4 DEF Leave, Goto, sessionVars
  <2>4. Stage' /\ Reached'
    BY <1>0, <2>3, CommandsApart DEF IInv, TypeOK, Stage, Reached, Calls
  <2>5. InHand'
    <3>1. status \notin Ending BY <1>4 DEF AcceptsEmergency
    <3>2. \A d \in Command : pc[d] \notin Calls BY <1>0, <1>1 DEF Calls, Held
    <3> QED BY <2>3, <3>1, <3>2, CommandsApart DEF IInv, InHand
  <2>6. FinishedMeansStopped' /\ SuccessMatchesStatus'
    BY <1>0, <2>3 DEF IInv, TypeOK, FinishedMeansStopped, SuccessMatchesStatus
  <2> QED BY <2>1, <2>2, <2>4, <2>5, <2>6 DEF IInv
<1> QED BY <1>3, <1>4 DEF BeginEmergency

-----------------------------------------------------------------------------
\* The farewell

LEMMA FarewellPlannedKeeps ==
  ASSUME IInv, NEW n \in Normal, FarewellPlanned(n) PROVE IInv'
<1>0. n \in Command /\ pc[n] = "closing" /\ pc[n] \in Held /\ Continue(n, "closing")
      /\ speech' \in {"canceled", "output"}
      /\ UNCHANGED <<status, version, main, closing, obs, broadcast>>
  BY CommandsApart DEF FarewellPlanned, Held, worldVars, sessionVars
<1>1. TypeOK'
  BY <1>0, ContinueKeepsTypes DEF IInv, TypeOK, Held
<1>2. Locking'
  BY <1>0, ContinueKeepsLocking DEF Held
<1>3. pc' = pc /\ outcome' = outcome /\ queue' = queue
  BY <1>0 DEF Continue, Goto, lockVars, IInv, TypeOK
<1>4. Stage' /\ Reached' /\ InHand'
  BY <1>0, <1>3 DEF IInv, Stage, Reached, InHand, EmergencyWaits
<1>5. FinishedMeansStopped' /\ SuccessMatchesStatus'
  BY <1>0, <1>3 DEF IInv, FinishedMeansStopped, SuccessMatchesStatus
<1> QED BY <1>1, <1>2, <1>4, <1>5 DEF IInv

LEMMA FarewellSpokenKeeps ==
  ASSUME IInv, NEW n \in Normal, FarewellSpoken(n) PROVE IInv'
<1>0. n \in Command /\ pc[n] = "closing" /\ pc[n] \in Held /\ Continue(n, "broadcast")
      /\ closing' = "COMPLETED" /\ speech' = "none" /\ SetStatus("STOPPING", 1)
      /\ UNCHANGED <<obs, broadcast>>
  BY CommandsApart DEF FarewellSpoken, Held, worldVars
<1>1. \A d \in Command : d # n => pc[d] \notin Held
  BY <1>0, Alone
<1>2. \A d \in Command : outcome[d] # "succeeded"
  BY <1>0, FinishedIsIdle, NotFinished
<1>3. TypeOK'
  <2>1. status' \in Statuses /\ version' \in Nat /\ main' = main
    BY <1>0 DEF IInv, TypeOK, Statuses, SetStatus
  <2> QED BY <1>0, <2>1, ContinueKeepsTypes DEF IInv, TypeOK, Held, Calls
<1>4. Locking'
  BY <1>0, ContinueKeepsLocking DEF Held, Calls
<1>5. pc' = [pc EXCEPT ![n] = "broadcast"] /\ outcome' = outcome /\ status' = "STOPPING"
  BY <1>0 DEF Continue, Goto, SetStatus
<1>6. Stage' /\ Reached' /\ InHand'
  BY <1>0, <1>1, <1>5, CommandsApart DEF IInv, TypeOK, Stage, Reached, InHand, Calls, Held
<1>7. FinishedMeansStopped' /\ SuccessMatchesStatus'
  BY <1>2, <1>5 DEF FinishedMeansStopped, SuccessMatchesStatus, Finished
<1> QED BY <1>3, <1>4, <1>6, <1>7 DEF IInv

LEMMA FarewellFailsKeeps ==
  ASSUME IInv, NEW n \in Normal, FarewellFails(n) PROVE IInv'
<1>0. n \in Command /\ pc[n] = "closing" /\ pc[n] \in Held /\ Leave(n, "failed")
      /\ closing' = "FAILED" /\ speech' = "none" /\ SetStatus("STOP_FAILED", 1)
      /\ UNCHANGED <<obs, broadcast>>
  BY CommandsApart DEF FarewellFails, Held, worldVars
<1>1. \A d \in Command : d # n => pc[d] \notin Held
  BY <1>0, Alone
<1>2. \A d \in Command : outcome[d] # "succeeded"
  BY <1>0, FinishedIsIdle, NotFinished
<1>3. TypeOK'
  <2>1. status' \in Statuses /\ version' \in Nat /\ main' = main
    BY <1>0 DEF IInv, TypeOK, Statuses, SetStatus
  <2> QED BY <1>0, <2>1, LeaveKeepsTypes DEF IInv, TypeOK, Results
<1>4. Locking'
  BY <1>0, LeaveKeepsLocking
<1>5. pc' = [pc EXCEPT ![n] = "done"] /\ outcome' = [outcome EXCEPT ![n] = "failed"]
      /\ status' = "STOP_FAILED"
  BY <1>0 DEF Leave, Goto, SetStatus
<1>6. Stage' /\ Reached' /\ InHand'
  BY <1>0, <1>1, <1>5, CommandsApart
  DEF IInv, TypeOK, Stage, Reached, InHand, Calls, Held, Ending
<1>7. FinishedMeansStopped' /\ SuccessMatchesStatus'
  BY <1>2, <1>5 DEF IInv, TypeOK, FinishedMeansStopped, SuccessMatchesStatus, Finished
<1> QED BY <1>3, <1>4, <1>6, <1>7 DEF IInv

-----------------------------------------------------------------------------
\* The calls to OBS and YouTube

\* What a call brings about, and that it undoes nothing.
LEMMA EffectIsTyped ==
  ASSUME IInv, NEW c \in Command, MayTakeEffect(c)
  PROVE  /\ obs' \in {"active", "idle"} /\ broadcast' \in {"live", "complete"}
         /\ obs = "idle" => obs' = "idle"
         /\ broadcast = "complete" => broadcast' = "complete"
  BY DEF MayTakeEffect, IInv, TypeOK

LEMMA CallSucceedsKeeps ==
  ASSUME IInv, NEW c \in Command, CallSucceeds(c) PROVE IInv'
<1>0. pc[c] \in {"broadcast", "obs"} /\ pc[c] \in Held /\ pc[c] \in Calls
      /\ Continue(c, NextCall(c)) /\ UNCHANGED <<status, version, main, closing, speech>>
  BY DEF CallSucceeds, Held, Calls, sessionVars, closingVars
<1>1. \A d \in Command : d # c => pc[d] \notin Held
  BY <1>0, Alone
<1>2. broadcast' = (IF pc[c] = "broadcast" THEN "complete" ELSE broadcast)
      /\ obs' = (IF pc[c] = "obs" THEN "idle" ELSE obs)
  BY DEF CallSucceeds
<1>3. NextCall(c) = IF pc[c] = "broadcast" THEN IF c \in Normal THEN "obs" ELSE "confirm"
                    ELSE IF c \in Normal THEN "confirm" ELSE "broadcast"
  BY <1>0 DEF NextCall
<1>4. NextCall(c) \in Calls /\ NextCall(c) \in Held
  BY <1>3 DEF Calls, Held
<1>5. TypeOK'
  BY <1>0, <1>2, <1>4, ContinueKeepsTypes DEF IInv, TypeOK
<1>6. Locking'
  BY <1>0, <1>4, ContinueKeepsLocking
<1>7. pc' = [pc EXCEPT ![c] = NextCall(c)] /\ outcome' = outcome /\ queue' = queue
  BY <1>0 DEF Continue, Goto, lockVars
<1>8. pc'[c] = NextCall(c) /\ \A d \in Command : d # c => pc'[d] = pc[d]
  BY <1>7 DEF IInv, TypeOK
<1>9. Stage'
  BY <1>0, <1>1, <1>3, <1>4, <1>8, CommandsApart DEF IInv, Stage, Calls, Held
<1>10. Reached'
  <2>1. CASE c \in Normal
    BY <1>0, <1>1, <1>2, <1>3, <1>8, <2>1, CommandsApart DEF IInv, Reached, Calls, Held
  <2>2. CASE c \in Emergency
    BY <1>0, <1>1, <1>2, <1>3, <1>8, <2>2, CommandsApart DEF IInv, Reached, Calls, Held
  <2> QED BY <2>1, <2>2, CommandsApart
<1>11. InHand'
  BY <1>0, <1>4, <1>7, <1>8, CommandsApart DEF IInv, InHand, EmergencyWaits, Calls
<1>12. FinishedMeansStopped' /\ SuccessMatchesStatus'
  BY <1>0, <1>2, <1>7 DEF IInv, FinishedMeansStopped, SuccessMatchesStatus
<1> QED BY <1>5, <1>6, <1>9, <1>10, <1>11, <1>12 DEF IInv

LEMMA ObsStaysKeeps ==
  ASSUME IInv, NEW e \in Emergency, ObsStays(e) PROVE IInv'
<1>0. e \in Command /\ pc[e] = "obs" /\ pc[e] \in Held /\ pc[e] \in Calls
      /\ Continue(e, "late") /\ UNCHANGED <<status, version, main, closing, speech>>
  BY CommandsApart DEF ObsStays, Held, Calls, sessionVars, closingVars
<1>1. \A d \in Command : d # e => pc[d] \notin Held
  BY <1>0, Alone
<1>2. /\ obs' \in {"active", "idle"} /\ broadcast' \in {"live", "complete"}
      /\ obs = "idle" => obs' = "idle"
      /\ broadcast = "complete" => broadcast' = "complete"
  BY <1>0, EffectIsTyped DEF ObsStays
<1>3. TypeOK'
  BY <1>0, <1>2, ContinueKeepsTypes DEF IInv, TypeOK, Held, Calls
<1>4. Locking'
  BY <1>0, ContinueKeepsLocking DEF Held, Calls
<1>5. pc' = [pc EXCEPT ![e] = "late"] /\ outcome' = outcome /\ queue' = queue
  BY <1>0 DEF Continue, Goto, lockVars
<1>6. Stage' /\ Reached'
  BY <1>0, <1>1, <1>5, CommandsApart DEF IInv, TypeOK, Stage, Reached, Calls, Held
<1>7. InHand'
  BY <1>0, <1>5, CommandsApart DEF IInv, TypeOK, InHand, EmergencyWaits, Calls
<1>8. FinishedMeansStopped' /\ SuccessMatchesStatus'
  BY <1>0, <1>2, <1>5 DEF IInv, FinishedMeansStopped, SuccessMatchesStatus
<1> QED BY <1>3, <1>4, <1>6, <1>7, <1>8 DEF IInv

LEMMA CallFailsKeeps ==
  ASSUME IInv, NEW c \in Command, CallFails(c) PROVE IInv'
<1>0. pc[c] \in Calls /\ pc[c] \in Held /\ Leave(c, "failed") /\ SetStatus("STOP_FAILED", 1)
      /\ UNCHANGED <<closing, speech>>
  BY DEF CallFails, Held, closingVars
<1>1. \A d \in Command : d # c => pc[d] \notin Held
  BY <1>0, Alone
<1>2. \A d \in Command : outcome[d] # "succeeded"
  BY <1>0, FinishedIsIdle, NotFinished
<1>3. obs' \in {"active", "idle"} /\ broadcast' \in {"live", "complete"}
  BY EffectIsTyped DEF CallFails
<1>4. TypeOK'
  BY <1>0, <1>3, LeaveKeepsTypes DEF IInv, TypeOK, Statuses, SetStatus, Results
<1>5. Locking'
  BY <1>0, LeaveKeepsLocking
<1>6. pc' = [pc EXCEPT ![c] = "done"] /\ outcome' = [outcome EXCEPT ![c] = "failed"]
      /\ status' = "STOP_FAILED"
  BY <1>0 DEF Leave, Goto, SetStatus
<1>7. Stage' /\ Reached' /\ InHand'
  BY <1>0, <1>1, <1>6, CommandsApart
  DEF IInv, TypeOK, Stage, Reached, InHand, Calls, Held, Ending
<1>8. FinishedMeansStopped' /\ SuccessMatchesStatus'
  BY <1>2, <1>6 DEF IInv, TypeOK, FinishedMeansStopped, SuccessMatchesStatus, Finished
<1> QED BY <1>4, <1>5, <1>7, <1>8 DEF IInv

LEMMA ConfirmedKeeps ==
  ASSUME IInv, NEW c \in Command, Confirmed(c) PROVE IInv'
<1> DEFINE final == IF c \in Normal THEN "COMPLETED" ELSE "EMERGENCY_STOPPED"
<1>0. pc[c] = "confirm" /\ pc[c] \in Calls /\ pc[c] \in Held /\ Leave(c, "succeeded")
      /\ SetStatus(final, 1) /\ UNCHANGED <<closing, speech, obs, broadcast>>
  BY DEF Confirmed, Calls, Held, closingVars, worldVars
<1>1. \A d \in Command : d # c => pc[d] \notin Held
  BY <1>0, Alone
<1>2. \A d \in Command : outcome[d] # "succeeded"
  BY <1>0, FinishedIsIdle, NotFinished
<1>3. TypeOK'
  <2>1. status' \in Statuses /\ version' \in Nat /\ main' = main
    BY <1>0 DEF IInv, TypeOK, Statuses, SetStatus
  <2> QED BY <1>0, <2>1, LeaveKeepsTypes DEF IInv, TypeOK, Results
<1>4. Locking'
  BY <1>0, LeaveKeepsLocking
<1>5. pc' = [pc EXCEPT ![c] = "done"] /\ outcome' = [outcome EXCEPT ![c] = "succeeded"]
      /\ status' = final
  BY <1>0 DEF Leave, Goto, SetStatus
<1>6. Stage' /\ Reached' /\ InHand'
  BY <1>0, <1>1, <1>5, CommandsApart
  DEF IInv, TypeOK, Stage, Reached, InHand, Calls, Held, Ending
<1>7. FinishedMeansStopped'
  BY <1>0, CommandsApart DEF IInv, Reached, FinishedMeansStopped
<1>8. SuccessMatchesStatus'
  BY <1>2, <1>5 DEF IInv, TypeOK, SuccessMatchesStatus
<1> QED BY <1>3, <1>4, <1>6, <1>7, <1>8 DEF IInv

\* CancelledError: the emergency stop that caused it waits for the lock.
LEMMA CancelledAtWorkKeeps ==
  ASSUME IInv, NEW n \in Normal, CancelledAtWork(n) PROVE IInv'
<1>0. n \in Command /\ pc[n] \in Held /\ pc[n] # "queued" /\ pc[n] # "ready" /\ cancelled[n]
      /\ Leave(n, "cancelled") /\ speech' = "none"
      /\ UNCHANGED <<status, version, main, closing>>
  BY CommandsApart DEF CancelledAtWork, Held, Calls, sessionVars
<1>1. \A d \in Command : d # n => pc[d] \notin Held
  BY <1>0, Alone
<1>2. /\ obs' \in {"active", "idle"} /\ broadcast' \in {"live", "complete"}
      /\ obs = "idle" => obs' = "idle"
      /\ broadcast = "complete" => broadcast' = "complete"
  BY <1>0, EffectIsTyped DEF CancelledAtWork
<1>3. TypeOK'
  BY <1>0, <1>2, LeaveKeepsTypes DEF IInv, TypeOK, Results
<1>4. Locking'
  BY <1>0, LeaveKeepsLocking
<1>5. pc' = [pc EXCEPT ![n] = "done"] /\ outcome' = [outcome EXCEPT ![n] = "cancelled"]
      /\ queue' = queue
  BY <1>0 DEF Leave, Goto
<1>6. Stage' /\ Reached'
  BY <1>0, <1>1, <1>5, CommandsApart DEF IInv, TypeOK, Stage, Reached, Calls, Held
<1>7. InHand'
  <2>1. EmergencyWaits BY <1>0 DEF IInv, Locking
  <2>2. status # "EMERGENCY_STOPPING"
    BY <1>0, <1>1, CommandsApart DEF IInv, InHand, Held
  <2> QED BY <1>0, <1>5, <2>1, <2>2 DEF InHand, EmergencyWaits
<1>8. FinishedMeansStopped' /\ SuccessMatchesStatus'
  BY <1>0, <1>2, <1>5 DEF IInv, TypeOK, FinishedMeansStopped, SuccessMatchesStatus
<1> QED BY <1>3, <1>4, <1>6, <1>7, <1>8 DEF IInv

-----------------------------------------------------------------------------
\* The queue for the lock

\* A command is in the queue or takes the lock: nobody else is concerned.
LEMMA AcquireOrWaitKeeps ==
  ASSUME IInv, NEW c \in Command, pc[c] = "read", AcquireOrWait(c)
  PROVE  /\ lock' \in Command \cup {NoCommand} /\ queue' \in Seq(Command)
         /\ pc' \in [Command -> {"new", "read", "queued", "ready", "closing", "done"} \cup Calls]
         /\ pc'[c] \in {"ready", "queued"}
         /\ \A d \in Command : d # c => pc'[d] = pc[d]
         /\ \A d \in Command : pc'[d] \in Held <=> lock' = d
         /\ \A i \in DOMAIN queue : \E k \in DOMAIN queue' : queue'[k] = queue[i]
         /\ lock # NoCommand => lock' = lock /\ \E k \in DOMAIN queue' : queue'[k] = c
<1>0. pc \in [Command -> {"new", "read", "queued", "ready", "closing", "done"} \cup Calls]
      /\ lock \in Command \cup {NoCommand} /\ queue \in Seq(Command)
  BY DEF IInv, TypeOK
<1>1. CASE lock = NoCommand /\ queue = <<>> /\ lock' = c /\ Goto(c, "ready") /\ UNCHANGED queue
  <2>1. pc' = [pc EXCEPT ![c] = "ready"] /\ "ready" \in Held BY <1>1 DEF Goto, Held
  <2>2. pc'[c] = "ready" /\ \A d \in Command : d # c => pc'[d] = pc[d] BY <1>0, <2>1
  <2>3. \A d \in Command : pc[d] \notin Held BY <1>1, CommandsApart DEF IInv, Locking
  <2> QED BY <1>0, <1>1, <2>1, <2>2, <2>3
<1>2. CASE (lock # NoCommand \/ queue # <<>>) /\ queue' = Append(queue, c)
           /\ Goto(c, "queued") /\ UNCHANGED lock
  <2>1. pc' = [pc EXCEPT ![c] = "queued"] /\ "queued" \notin Held /\ "read" \notin Held
    BY <1>2 DEF Goto, Held, Calls
  <2>2. pc'[c] = "queued" /\ \A d \in Command : d # c => pc'[d] = pc[d] BY <1>0, <2>1
  <2>3. \A d \in Command : pc'[d] \in Held <=> lock' = d
    BY <1>2, <2>1, <2>2 DEF IInv, Locking
  <2>4. /\ queue' \in Seq(Command)
        /\ \A i \in DOMAIN queue : \E k \in DOMAIN queue' : queue'[k] = queue[i]
        /\ \E k \in DOMAIN queue' : queue'[k] = c
    <3>1. queue' = Append(queue, c) /\ Append(queue, c) \in Seq(Command)
      BY <1>0, <1>2
    <3>2. \A i \in DOMAIN queue : i \in DOMAIN queue' /\ queue'[i] = queue[i]
      BY <1>0, <1>2
    <3>3. Len(queue) + 1 \in DOMAIN queue' /\ queue'[Len(queue) + 1] = c
      BY <1>0, <1>2
    <3> QED BY <3>1, <3>2, <3>3
  <2> QED BY <1>0, <1>2, <2>1, <2>2, <2>3, <2>4
<1> QED BY <1>1, <1>2 DEF AcquireOrWait

\* Nobody at work on the session is moved by a step that leaves the session alone.
LEMMA OthersArriving ==
  ASSUME IInv, NEW c \in Command, pc[c] \in {"new", "read", "queued"},
         pc'[c] \in {"read", "queued", "ready", "done"},
         \A d \in Command : d # c => pc'[d] = pc[d],
         UNCHANGED <<status, closing, obs, broadcast>>
  PROVE  Stage' /\ Reached' /\ FinishedMeansStopped'
<1>1. Stage'
  BY DEF IInv, Stage, Calls
<1>2. Reached'
  BY CommandsApart DEF IInv, Reached, Calls
<1> QED BY <1>1, <1>2 DEF IInv, FinishedMeansStopped

LEMMA ArriveNormalKeeps ==
  ASSUME IInv, NEW n \in Normal, ArriveNormal(n) PROVE IInv'
<1>0. n \in Command /\ pc[n] = "read" /\ AcquireOrWait(n) /\ normalTask' = n
      /\ arrived' = [arrived EXCEPT ![n] = version]
      /\ UNCHANGED <<status, version, main, closing, speech, obs, broadcast, stopped,
                     cancelled, outcome, expected>>
  BY CommandsApart DEF ArriveNormal, sessionVars, closingVars, worldVars
<1>1. /\ lock' \in Command \cup {NoCommand} /\ queue' \in Seq(Command)
      /\ pc' \in [Command -> {"new", "read", "queued", "ready", "closing", "done"} \cup Calls]
      /\ pc'[n] \in {"ready", "queued"}
      /\ \A d \in Command : d # n => pc'[d] = pc[d]
      /\ \A d \in Command : pc'[d] \in Held <=> lock' = d
      /\ \A i \in DOMAIN queue : \E k \in DOMAIN queue' : queue'[k] = queue[i]
      /\ lock # NoCommand => lock' = lock
  BY <1>0, AcquireOrWaitKeeps
<1>2. TypeOK'
  BY <1>0, <1>1 DEF IInv, TypeOK
<1>3. EmergencyWaits => EmergencyWaits'
  BY <1>1 DEF EmergencyWaits
<1>4. Locking'
  <2>1. ASSUME NEW d \in Command, cancelled'[d]
        PROVE  d \in Normal /\ (pc'[d] = "queued" \/ (lock' = d /\ EmergencyWaits'))
    BY <1>0, <1>1, <1>3, <2>1, CommandsApart DEF IInv, Locking
  <2>2. pc'[normalTask'] \in Held \cup {"queued"}
    BY <1>0, <1>1 DEF Held
  <2> QED BY <1>1, <2>1, <2>2 DEF Locking
<1>5. Stage' /\ Reached' /\ FinishedMeansStopped'
  BY <1>0, <1>1, OthersArriving
<1>6. InHand'
  BY <1>0, <1>1, <1>3, CommandsApart DEF IInv, InHand, Calls
<1>7. SuccessMatchesStatus'
  BY <1>0 DEF IInv, SuccessMatchesStatus
<1> QED BY <1>2, <1>4, <1>5, <1>6, <1>7 DEF IInv

\* The normal end that is cancelled has the lock or waits for it, so that the
\* emergency stop waits too.
LEMMA ArriveEmergencyKeeps ==
  ASSUME IInv, NEW e \in Emergency, ArriveEmergency(e) PROVE IInv'
<1>0. e \in Command /\ pc[e] = "read" /\ AcquireOrWait(e) /\ stopped' = TRUE
      /\ arrived' = [arrived EXCEPT ![e] = version]
      /\ UNCHANGED <<status, version, main, closing, obs, broadcast, outcome, normalTask,
                     expected>>
  BY CommandsApart DEF ArriveEmergency, sessionVars, worldVars
<1>1. /\ lock' \in Command \cup {NoCommand} /\ queue' \in Seq(Command)
      /\ pc' \in [Command -> {"new", "read", "queued", "ready", "closing", "done"} \cup Calls]
      /\ pc'[e] \in {"ready", "queued"}
      /\ \A d \in Command : d # e => pc'[d] = pc[d]
      /\ \A d \in Command : pc'[d] \in Held <=> lock' = d
      /\ \A i \in DOMAIN queue : \E k \in DOMAIN queue' : queue'[k] = queue[i]
      /\ lock # NoCommand => lock' = lock /\ \E k \in DOMAIN queue' : queue'[k] = e
  BY <1>0, AcquireOrWaitKeeps
<1>2. /\ cancelled' \in [Command -> BOOLEAN]
      /\ \A d \in Command : cancelled'[d] => cancelled[d] \/ d = normalTask
  BY DEF ArriveEmergency, IInv, TypeOK
<1>3. speech' \in {"none", "planning", "output", "canceled"}
  BY DEF ArriveEmergency, IInv, TypeOK
<1>4. TypeOK'
  BY <1>0, <1>1, <1>2, <1>3 DEF IInv, TypeOK
<1>5. EmergencyWaits => EmergencyWaits'
  BY <1>1 DEF EmergencyWaits
<1>6. lock # NoCommand => EmergencyWaits'
  BY <1>1 DEF EmergencyWaits
<1>7. \A n \in Normal : n # e
  BY CommandsApart
<1>8. ASSUME NEW d \in Command, cancelled'[d]
      PROVE  d \in Normal /\ (pc'[d] = "queued" \/ (lock' = d /\ EmergencyWaits'))
  <2>1. CASE cancelled[d]
    <3>1. d \in Normal /\ (pc[d] = "queued" \/ lock = d) BY <2>1 DEF IInv, Locking
    <3> QED BY <1>1, <1>6, <1>7, <3>1, CommandsApart
  <2>2. CASE d = normalTask
    <3>1. d \in Normal BY <2>2, CommandsApart DEF IInv, TypeOK
    <3>2. pc[d] = "queued" \/ lock = d BY <2>2, <3>1, CommandsApart DEF IInv, Locking
    <3> QED BY <1>1, <1>6, <1>7, <3>1, <3>2, CommandsApart
  <2> QED BY <1>2, <1>8, <2>1, <2>2
<1>9. Locking'
  <2>1. normalTask # NoCommand => normalTask \in Normal BY DEF IInv, TypeOK
  <2>2. normalTask' # NoCommand => pc'[normalTask'] \in Held \cup {"queued"}
    BY <1>0, <1>1, <1>7, <2>1, CommandsApart DEF IInv, Locking
  <2> QED BY <1>1, <1>8, <2>2 DEF Locking
<1>10. Stage' /\ Reached' /\ FinishedMeansStopped'
  BY <1>0, <1>1, OthersArriving
<1>11. InHand'
  BY <1>0, <1>1, <1>5, <1>7, CommandsApart DEF IInv, InHand, Calls
<1>12. SuccessMatchesStatus'
  BY <1>0 DEF IInv, SuccessMatchesStatus
<1> QED BY <1>4, <1>9, <1>10, <1>11, <1>12 DEF IInv

LEMMA EnterKeeps ==
  ASSUME IInv, NEW c \in Command, Enter(c) PROVE IInv'
<1>0. pc[c] = "queued" /\ ~cancelled[c] /\ lock = NoCommand /\ Head(queue) = c
      /\ lock' = c /\ queue' = Tail(queue) /\ pc' = [pc EXCEPT ![c] = "ready"]
      /\ UNCHANGED <<status, version, main, closing, speech, obs, broadcast, stopped,
                     cancelled, outcome, normalTask, expected, arrived>>
  BY DEF Enter, Goto, sessionVars, closingVars, worldVars, clientVars
<1>1. pc'[c] = "ready" /\ \A d \in Command : d # c => pc'[d] = pc[d]
  BY <1>0 DEF IInv, TypeOK
<1>2. \A d \in Command : pc[d] \notin Held
  BY <1>0, CommandsApart DEF IInv, Locking
<1>3. TypeOK'
  <2>1. pc' \in [Command -> {"new", "read", "queued", "ready", "closing", "done"} \cup Calls]
    BY <1>0 DEF IInv, TypeOK
  <2>2. queue' \in Seq(Command)
    <3>1. queue # <<>> BY DEF Enter
    <3> QED BY <1>0, <3>1 DEF IInv, TypeOK
  <2> QED BY <1>0, <2>1, <2>2 DEF IInv, TypeOK
<1>4. Locking'
  <2>1. \A d \in Command : pc'[d] \in Held <=> lock' = d
    BY <1>0, <1>1, <1>2 DEF Held
  <2>2. \A d \in Command : cancelled'[d] => d \in Normal /\ pc'[d] = "queued"
    BY <1>0, <1>1, CommandsApart DEF IInv, Locking
  <2>3. normalTask' # NoCommand => pc'[normalTask'] \in Held \cup {"queued"}
    BY <1>0, <1>1, CommandsApart DEF IInv, TypeOK, Locking, Held
  <2> QED BY <2>1, <2>2, <2>3 DEF Locking
<1>5. Stage' /\ Reached' /\ FinishedMeansStopped'
  BY <1>0, <1>1, OthersArriving
<1>6. InHand'
  <2>1. status # "EMERGENCY_STOPPING" /\ (status \in Ending => EmergencyWaits)
    BY <1>2, CommandsApart DEF IInv, InHand, Held
  <2>2. CASE c \in Emergency BY <1>0, <1>1, <2>1, <2>2 DEF InHand
  <2>3. CASE c \notin Emergency
    <3>1. ASSUME NEW i \in DOMAIN queue, queue[i] \in Emergency
          PROVE  \E k \in DOMAIN Tail(queue) : Tail(queue)[k] = queue[i]
      BY <1>0, <2>3, <3>1, TailStays DEF IInv, TypeOK
    <3>2. EmergencyWaits => EmergencyWaits'
      BY <1>0, <3>1 DEF EmergencyWaits
    <3> QED BY <1>0, <2>1, <3>2 DEF InHand
  <2> QED BY <2>2, <2>3
<1>7. SuccessMatchesStatus'
  BY <1>0 DEF IInv, SuccessMatchesStatus
<1> QED BY <1>3, <1>4, <1>5, <1>6, <1>7 DEF IInv

LEMMA CancelledQueuedKeeps ==
  ASSUME IInv, NEW n \in Normal, CancelledQueued(n) PROVE IInv'
<1>0. n \in Command /\ pc[n] = "queued" /\ pc' = [pc EXCEPT ![n] = "done"]
      /\ outcome' = [outcome EXCEPT ![n] = "cancelled"]
      /\ cancelled' = [cancelled EXCEPT ![n] = FALSE]
      /\ normalTask' = (IF normalTask = n THEN NoCommand ELSE normalTask)
      /\ UNCHANGED <<status, version, main, closing, speech, obs, broadcast, stopped, lock,
                     expected, arrived>>
  BY CommandsApart DEF CancelledQueued, Goto, sessionVars, closingVars, worldVars, clientVars
<1>1. PICK i \in DOMAIN queue : queue[i] = n /\ queue' = RemoveAt(queue, i)
  BY DEF CancelledQueued
<1>2. queue \in Seq(Command) BY DEF IInv, TypeOK
<1>3. queue' \in Seq(Command) BY <1>1, <1>2, OthersStay
<1>4. EmergencyWaits => EmergencyWaits'
  <2>1. ASSUME NEW j \in DOMAIN queue, queue[j] \in Emergency
        PROVE  \E k \in DOMAIN queue' : queue'[k] = queue[j]
    BY <1>1, <1>2, <2>1, OthersStay, CommandsApart
  <2> QED BY <2>1 DEF EmergencyWaits
<1>5. pc'[n] = "done" /\ ~cancelled'[n]
      /\ \A d \in Command : d # n => pc'[d] = pc[d] /\ cancelled'[d] = cancelled[d]
  BY <1>0 DEF IInv, TypeOK
<1>6. TypeOK'
  <2>1. pc' \in [Command -> {"new", "read", "queued", "ready", "closing", "done"} \cup Calls]
        /\ outcome' \in [Command -> Results] /\ cancelled' \in [Command -> BOOLEAN]
        /\ normalTask' \in Normal \cup {NoCommand}
    BY <1>0 DEF IInv, TypeOK, Results
  <2> QED BY <1>0, <1>3, <2>1 DEF IInv, TypeOK, Results
<1>7. Locking'
  <2>1. \A d \in Command : pc'[d] \in Held <=> lock' = d
    <3>1. "done" \notin Held /\ "queued" \notin Held BY DEF Held, Calls
    <3> QED BY <1>0, <1>5, <3>1 DEF IInv, Locking
  <2>2. ASSUME NEW d \in Command, cancelled'[d]
        PROVE  d \in Normal /\ (pc'[d] = "queued" \/ (lock' = d /\ EmergencyWaits'))
    BY <1>0, <1>4, <1>5, <2>2 DEF IInv, Locking
  <2>3. normalTask' # NoCommand => pc'[normalTask'] \in Held \cup {"queued"}
    BY <1>0, <1>5, CommandsApart DEF IInv, TypeOK, Locking
  <2> QED BY <2>1, <2>2, <2>3 DEF Locking
<1>8. Stage' /\ Reached' /\ FinishedMeansStopped'
  BY <1>0, <1>5, OthersArriving
<1>9. InHand'
  BY <1>0, <1>4, <1>5, CommandsApart DEF IInv, InHand, Calls
<1>10. SuccessMatchesStatus'
  BY <1>0 DEF IInv, TypeOK, SuccessMatchesStatus
<1> QED BY <1>6, <1>7, <1>8, <1>9, <1>10 DEF IInv

-----------------------------------------------------------------------------
\* The stream goes on, and a client reads the session

\* A step that leaves the session, the outside and the commands alone.
LEMMA AsideKeeps ==
  ASSUME IInv, TypeOK', UNCHANGED <<status, closing, obs, broadcast, pc, cancelled, outcome,
                                    lock, queue, normalTask>>
  PROVE  IInv'
<1>1. Locking' /\ Stage' /\ Reached' /\ InHand'
  BY DEF IInv, Locking, Stage, Reached, InHand, EmergencyWaits
<1>2. FinishedMeansStopped' /\ SuccessMatchesStatus'
  BY DEF IInv, FinishedMeansStopped, SuccessMatchesStatus
<1> QED BY <1>1, <1>2 DEF IInv

LEMMA MainKeeps ==
  ASSUME IInv, MainStarts \/ MainCompletes PROVE IInv'
<1>1. /\ main' \in {"none", "running", "completed"} /\ version' \in Nat
      /\ UNCHANGED <<status, closing, speech, obs, broadcast, stopped, pc, cancelled, outcome,
                     lock, queue, normalTask, expected, arrived>>
  BY DEF MainStarts, MainCompletes, closingVars, worldVars, lockVars, clientVars, IInv, TypeOK
<1>2. TypeOK'
  BY <1>1 DEF IInv, TypeOK
<1> QED BY <1>1, <1>2, AsideKeeps

LEMMA StutterKeeps ==
  ASSUME IInv, UNCHANGED vars PROVE IInv'
<1>1. UNCHANGED <<status, version, main, closing, speech, obs, broadcast, stopped, pc, cancelled,
                  outcome, lock, queue, normalTask, expected, arrived>>
  BY DEF vars, sessionVars, closingVars, worldVars, lockVars, clientVars
<1>2. TypeOK'
  BY <1>1 DEF IInv, TypeOK
<1> QED BY <1>1, <1>2, AsideKeeps

LEMMA ReadKeeps ==
  ASSUME IInv, NEW c \in Command, Read(c) PROVE IInv'
<1>0. pc[c] = "new" /\ pc' = [pc EXCEPT ![c] = "read"]
      /\ expected' = [expected EXCEPT ![c] = version]
      /\ UNCHANGED <<status, version, main, closing, speech, obs, broadcast, stopped, cancelled,
                     outcome, lock, queue, normalTask, arrived>>
  BY DEF Read, Goto, sessionVars, closingVars, worldVars, lockVars
<1>1. pc'[c] = "read" /\ \A d \in Command : d # c => pc'[d] = pc[d]
  BY <1>0 DEF IInv, TypeOK
<1>2. TypeOK'
  <2>1. pc' \in [Command -> {"new", "read", "queued", "ready", "closing", "done"} \cup Calls]
        /\ expected' \in [Command -> Nat]
    BY <1>0 DEF IInv, TypeOK
  <2> QED BY <1>0, <2>1 DEF IInv, TypeOK
<1>3. Locking'
  <2>1. "new" \notin Held \cup {"queued"} /\ "read" \notin Held BY DEF Held, Calls
  <2>2. \A d \in Command : pc'[d] \in Held <=> lock' = d
    BY <1>0, <1>1, <2>1 DEF IInv, Locking
  <2>3. ASSUME NEW d \in Command, cancelled'[d]
        PROVE  d \in Normal /\ (pc'[d] = "queued" \/ (lock' = d /\ EmergencyWaits'))
    BY <1>0, <1>1, <2>1, <2>3 DEF IInv, Locking, EmergencyWaits
  <2>4. normalTask' # NoCommand => pc'[normalTask'] \in Held \cup {"queued"}
    BY <1>0, <1>1, <2>1, CommandsApart DEF IInv, TypeOK, Locking
  <2> QED BY <2>2, <2>3, <2>4 DEF Locking
<1>4. Stage' /\ Reached' /\ FinishedMeansStopped'
  BY <1>0, <1>1, OthersArriving
<1>5. InHand'
  BY <1>0, <1>1, CommandsApart DEF IInv, InHand, EmergencyWaits, Calls
<1>6. SuccessMatchesStatus'
  BY <1>0 DEF IInv, SuccessMatchesStatus
<1> QED BY <1>2, <1>3, <1>4, <1>5, <1>6 DEF IInv

LEMMA NextKeeps == IInv /\ [Next]_vars => IInv'
<1> SUFFICES ASSUME IInv, [Next]_vars PROVE IInv'
  OBVIOUS
<1>1. CASE MainStarts \/ MainCompletes BY <1>1, MainKeeps
<1>2. ASSUME NEW c \in Command, Read(c) PROVE IInv' BY <1>2, ReadKeeps
<1>3. ASSUME NEW c \in Command, CommandNext(c) PROVE IInv'
  BY <1>3, EnterKeeps, CallSucceedsKeeps, CallFailsKeeps, ConfirmedKeeps DEF CommandNext
<1>4. ASSUME NEW n \in Normal, NormalNext(n) PROVE IInv'
  BY <1>4, RejectNormalKeeps, BeginClosingKeeps, ResumeStopKeeps, FarewellPlannedKeeps,
     FarewellSpokenKeeps, FarewellFailsKeeps, CancelledQueuedKeeps, CancelledAtWorkKeeps
  DEF NormalNext
<1>5. ASSUME NEW e \in Emergency, BeginEmergency(e) \/ ObsStays(e) PROVE IInv'
  BY <1>5, BeginEmergencyKeeps, ObsStaysKeeps
<1>6. ASSUME NEW n \in Normal, ArriveNormal(n) PROVE IInv' BY <1>6, ArriveNormalKeeps
<1>7. ASSUME NEW e \in Emergency, ArriveEmergency(e) PROVE IInv' BY <1>7, ArriveEmergencyKeeps
<1>8. CASE UNCHANGED vars BY <1>8, StutterKeeps
<1> QED BY <1>1, <1>2, <1>3, <1>4, <1>5, <1>6, <1>7, <1>8 DEF Next, TaskNext

\* However many operators end the stream or stop it at once, the holder of the
\* lock and the queue behind it account for what the session is going through.
THEOREM Invariant == Spec => []IInv
  BY InitIsGood, NextKeeps, PTL DEF Spec

-----------------------------------------------------------------------------
\* The usecase's variables have their types.
THEOREM TypeCorrect == Spec => []TypeOK
<1>1. IInv => TypeOK BY DEF IInv
<1> QED BY <1>1, Invariant, PTL

\* A session that is closing or stopping is in somebody's hands, also after the
\* normal end was cancelled: the emergency stop that did so has the lock or
\* waits for it (_normal_locked, emergency).
THEOREM EndingHasRunnerCorrect == Spec => []EndingHasRunner
<1>1. IInv => EndingHasRunner
  <2> SUFFICES ASSUME IInv, status \in Ending \cup {"EMERGENCY_STOPPING"}
               PROVE  lock # NoCommand \/ EmergencyWaits
    BY DEF EndingHasRunner, EmergencyWaits
  <2>1. ASSUME NEW c \in Command, pc[c] \in Held PROVE lock # NoCommand
    BY <2>1, CommandsApart DEF IInv, Locking
  <2> QED BY <2>1, CommandsApart DEF IInv, InHand, Held
<1> QED BY <1>1, Invariant, PTL

\* A session is finished only when YouTube and OBS are, after any number of
\* failed, cancelled and repeated attempts (_stop_external).
THEOREM FinishedMeansStoppedCorrect == Spec => []FinishedMeansStopped
<1>1. IInv => FinishedMeansStopped BY DEF IInv
<1> QED BY <1>1, Invariant, PTL

\* A normal end asks OBS to stop only after the farewell was spoken and YouTube
\* has confirmed, whichever attempt did either (_normal_locked, _stop_external).
THEOREM NormalEndInOrderCorrect == Spec => []NormalEndInOrder
<1>1. IInv => NormalEndInOrder BY DEF IInv, Reached, NormalEndInOrder, Calls
<1> QED BY <1>1, Invariant, PTL

\* The session ends as its commands report, and at most one of them ends it.
THEOREM SuccessMatchesStatusCorrect == Spec => []SuccessMatchesStatus
<1>1. IInv => SuccessMatchesStatus BY DEF IInv
<1> QED BY <1>1, Invariant, PTL

\* Once an emergency stop has come, no farewell starts to be spoken.
LEMMA StaysSilent ==
  ASSUME [Next]_vars
  PROVE  stopped /\ speech # "output" => speech' # "output"
<1> DEFINE Silent == stopped /\ speech # "output" => speech' # "output"
<1>1. Silent
  <2>1. CASE UNCHANGED vars BY <2>1 DEF vars, closingVars
  <2>2. ASSUME NEW n \in Normal, ArriveNormal(n) PROVE Silent BY <2>2 DEF ArriveNormal, closingVars
  <2>3. ASSUME NEW e \in Emergency, ArriveEmergency(e) PROVE Silent BY <2>3 DEF ArriveEmergency
  <2>4. CASE MainStarts \/ MainCompletes BY <2>4 DEF MainStarts, MainCompletes, closingVars
  <2>5. ASSUME NEW c \in Command, Read(c) \/ CommandNext(c) PROVE Silent
    BY <2>5 DEF Read, CommandNext, Enter, CallSucceeds, CallFails, Confirmed, closingVars
  <2>6. ASSUME NEW n \in Normal, NormalNext(n) PROVE Silent
    <3>1. CASE FarewellPlanned(n) BY <3>1 DEF FarewellPlanned
    <3>2. CASE BeginClosing(n) BY <3>2 DEF BeginClosing, closingVars
    <3>3. CASE FarewellSpoken(n) \/ FarewellFails(n) BY <3>3 DEF FarewellSpoken, FarewellFails
    <3>4. CASE RejectNormal(n) \/ ResumeStop(n) \/ CancelledQueued(n) \/ CancelledAtWork(n)
      BY <3>4 DEF RejectNormal, ResumeStop, CancelledQueued, CancelledAtWork, closingVars
    <3> QED BY <2>6, <3>1, <3>2, <3>3, <3>4 DEF NormalNext
  <2>7. ASSUME NEW e \in Emergency, BeginEmergency(e) \/ ObsStays(e) PROVE Silent
    BY <2>7 DEF BeginEmergency, ObsStays, closingVars
  <2> HIDE DEF Silent
  <2> QED BY <2>1, <2>2, <2>3, <2>4, <2>5, <2>6, <2>7 DEF Next, TaskNext
<1> QED BY <1>1

\* The one that was being spoken was cut off.
Silenced == stopped => speech # "output"

LEMMA SilencedKeeps == Silenced /\ [Next]_vars => Silenced'
<1> SUFFICES ASSUME Silenced, [Next]_vars, stopped' PROVE speech' # "output"
  BY DEF Silenced
<1>1. CASE stopped BY <1>1, StaysSilent DEF Silenced
<1>2. CASE ~stopped
  <2>1. \E e \in Emergency : ArriveEmergency(e)
    BY <1>2 DEF Next, TaskNext, CommandNext, NormalNext, vars, MainStarts, MainCompletes, Read,
       ArriveNormal, Enter, CallSucceeds, CallFails, Confirmed, RejectNormal, BeginClosing,
       ResumeStop, FarewellPlanned, FarewellSpoken, FarewellFails, CancelledQueued,
       CancelledAtWork, BeginEmergency, ObsStays, Leave, Continue
  <2> QED BY <2>1 DEF ArriveEmergency
<1> QED BY <1>1, <1>2

LEMMA OnlySpokenCompletes ==
  ASSUME [Next]_vars, closing # "COMPLETED", closing' = "COMPLETED"
  PROVE  speech = "output"
<1>1. CASE \E n \in Normal : FarewellSpoken(n) BY <1>1 DEF FarewellSpoken
<1>2. CASE ~ \E n \in Normal : FarewellSpoken(n)
  BY <1>2 DEF Next, TaskNext, CommandNext, NormalNext, vars, closingVars, MainStarts,
     MainCompletes, Read, ArriveNormal, ArriveEmergency, Enter, CallSucceeds, CallFails,
     Confirmed, RejectNormal, BeginClosing, ResumeStop, FarewellPlanned, FarewellFails,
     CancelledQueued, CancelledAtWork, BeginEmergency, ObsStays
<1> QED BY <1>1, <1>2

\* After an emergency stop no farewell is completed that was not before, and no normal
\* end without one makes a call: the stop cuts the speech that is on, the scheduler
\* refuses the one that was planned, and a resumed end asks for a completed farewell.
THEOREM EmergencyEndsFarewellCorrect == Spec => EmergencyEndsFarewell
<1> DEFINE P == stopped /\ closing # "COMPLETED" =>
            /\ closing' # "COMPLETED"
            /\ \A n \in Normal : pc'[n] \notin Calls
<1>1. Init => Silenced BY DEF Init, Silenced
<1>2. IInv' /\ Silenced /\ [Next]_vars => [P]_vars
  <2> SUFFICES ASSUME IInv', Silenced, [Next]_vars, stopped, closing # "COMPLETED"
               PROVE  closing' # "COMPLETED" /\ \A n \in Normal : pc'[n] \notin Calls
    OBVIOUS
  <2>1. closing' # "COMPLETED" BY OnlySpokenCompletes DEF Silenced
  <2> QED BY <2>1 DEF IInv, Reached
<1> QED BY <1>1, <1>2, SilencedKeeps, Invariant, PTL DEF Spec, EmergencyEndsFarewell

-----------------------------------------------------------------------------
(***************************************************************************)
(* The life of the session.  SavedAs says what a save may make of a        *)
(* session, so that each action shows the path it takes in the table.      *)
(***************************************************************************)

LEMMA SavedAs ==
  ASSUME NEW S, NEW a \in S
  PROVE  /\ a \in Life!Statuses => \A b \in Life!Successors[a] : b \in Life!Saved(S)
         /\ a = "LIVE" => "LIVE" \in Life!Saved(S)
  BY DEF Life!Saved

\* The paths of two and three saves that the commands take.
LEMMA Paths ==
  /\ "CLOSING" \in Life!Saved(Life!Saved({"LIVE"}))
  /\ "STOP_FAILED" \in Life!Saved(Life!Saved(Life!Saved({"LIVE"})))
  /\ \A st \in {"LIVE", "STOP_FAILED"} \cup Ending :
        "EMERGENCY_STOPPING" \in Life!Saved(Life!Saved({st}))
<1>1. "CLOSING_REQUESTED" \in Life!Saved({"LIVE"})
  BY SavedAs DEF Life!Successors, Life!Statuses
<1>2. "CLOSING" \in Life!Saved(Life!Saved({"LIVE"}))
  BY <1>1, SavedAs DEF Life!Successors, Life!Statuses
<1>3. "STOP_FAILED" \in Life!Saved(Life!Saved(Life!Saved({"LIVE"})))
  BY <1>2, SavedAs DEF Life!Successors, Life!Statuses
<1>4. ASSUME NEW st \in {"LIVE", "STOP_FAILED"} \cup Ending
      PROVE  "EMERGENCY_STOPPING" \in Life!Saved(Life!Saved({st}))
  <2>1. "EMERGENCY_STOP_REQUESTED" \in Life!Saved({st})
    <3>1. st \in Life!Statuses /\ "EMERGENCY_STOP_REQUESTED" \in Life!Successors[st]
      BY DEF Life!Successors, Life!Statuses, Ending
    <3> QED BY <3>1, SavedAs
  <2> QED BY <2>1, SavedAs DEF Life!Successors, Life!Statuses
<1> QED BY <1>2, <1>3, <1>4

\* One save along the table.
LEMMA SavedOnce ==
  ASSUME NEW st \in Life!Successors[status], status \in Life!Statuses, SetStatus(st, 1)
  PROVE  Life!Save
<1>1. st \in Life!Saved({status}) BY SavedAs
<1> QED BY <1>1 DEF SetStatus, Life!Save

LEMMA NormalFollowsLife ==
  ASSUME IInv, NEW n \in Normal, NormalNext(n)
  PROVE  Life!Save \/ UNCHANGED <<status, version>>
<1>1. CASE BeginClosing(n)
  <2>1. \/ SetStatus("CLOSING", 2) \/ SetStatus("STOP_FAILED", 3)
    BY <1>1 DEF BeginClosing
  <2>2. status = "LIVE" BY <1>1 DEF BeginClosing
  <2> QED BY <2>1, <2>2, Paths DEF SetStatus, Life!Save
<1>2. CASE ResumeStop(n)
  <2>1. status = "STOP_FAILED" /\ (SetStatus("STOPPING", 1) \/ UNCHANGED sessionVars)
    BY <1>2 DEF ResumeStop
  <2> QED BY <2>1, SavedOnce DEF Life!Successors, Life!Statuses, sessionVars
<1>3. CASE FarewellSpoken(n) \/ FarewellFails(n)
  <2>1. status = "CLOSING" BY <1>3, CommandsApart DEF IInv, Stage, FarewellSpoken, FarewellFails
  <2>2. SetStatus("STOPPING", 1) \/ SetStatus("STOP_FAILED", 1)
    BY <1>3 DEF FarewellSpoken, FarewellFails
  <2> QED BY <2>1, <2>2, SavedOnce DEF Life!Successors, Life!Statuses
<1>4. CASE RejectNormal(n) \/ FarewellPlanned(n) \/ CancelledQueued(n) \/ CancelledAtWork(n)
  BY <1>4 DEF RejectNormal, FarewellPlanned, CancelledQueued, CancelledAtWork, sessionVars
<1> QED BY <1>1, <1>2, <1>3, <1>4 DEF NormalNext

LEMMA CallsFollowLife ==
  ASSUME IInv, NEW c \in Command, CallFails(c) \/ Confirmed(c)
  PROVE  Life!Save
<1>1. pc[c] \in Calls /\ (c \in Normal \/ c \in Emergency)
  BY DEF CallFails, Confirmed, Calls, Command
<1>2. status = IF c \in Normal THEN "STOPPING" ELSE "EMERGENCY_STOPPING"
  BY <1>1 DEF IInv, Stage
<1>3. \/ SetStatus("STOP_FAILED", 1)
      \/ SetStatus(IF c \in Normal THEN "COMPLETED" ELSE "EMERGENCY_STOPPED", 1)
  BY DEF CallFails, Confirmed
<1> QED BY <1>2, <1>3, SavedOnce DEF Life!Successors, Life!Statuses

LEMMA EmergencyFollowsLife ==
  ASSUME NEW e \in Emergency, BeginEmergency(e)
  PROVE  Life!Save \/ UNCHANGED <<status, version>>
<1>1. CASE AcceptsEmergency(e) /\ SetStatus("EMERGENCY_STOPPING", 2)
  BY <1>1, Paths DEF AcceptsEmergency, SetStatus, Life!Save
<1>2. CASE UNCHANGED sessionVars BY <1>2 DEF sessionVars
<1> QED BY <1>1, <1>2 DEF BeginEmergency

LEMMA NextFollowsLife == IInv /\ [Next]_vars => [Life!Save]_<<status, version>>
<1> SUFFICES ASSUME IInv, [Next]_vars PROVE Life!Save \/ UNCHANGED <<status, version>>
  OBVIOUS
<1>1. CASE MainStarts
  <2>1. status \in Life!Saved({status}) BY <1>1, SavedAs DEF MainStarts
  <2> QED BY <1>1, <2>1 DEF MainStarts, Life!Save
<1>2. CASE MainCompletes BY <1>2 DEF MainCompletes
<1>3. ASSUME NEW c \in Command, Read(c) \/ Enter(c) \/ CallSucceeds(c)
      PROVE  UNCHANGED <<status, version>>
  BY <1>3 DEF Read, Enter, CallSucceeds, sessionVars
<1>4. ASSUME NEW n \in Normal, ArriveNormal(n) PROVE UNCHANGED <<status, version>>
  BY <1>4 DEF ArriveNormal, sessionVars
<1>5. ASSUME NEW e \in Emergency, ArriveEmergency(e) \/ ObsStays(e)
      PROVE  UNCHANGED <<status, version>>
  BY <1>5 DEF ArriveEmergency, ObsStays, sessionVars
<1>6. CASE UNCHANGED vars BY <1>6 DEF vars, sessionVars
<1> QED BY <1>1, <1>2, <1>3, <1>4, <1>5, <1>6, NormalFollowsLife, CallsFollowLife,
           EmergencyFollowsLife DEF Next, TaskNext, CommandNext

\* No command asks for a transition that StreamSession.transition refuses: not after a
\* cancelled end, nor when an emergency stop takes over at any of its awaits.
THEOREM FollowsLifeCorrect == Spec => FollowsLife
  BY Invariant, NextFollowsLife, PTL DEF Spec, FollowsLife

\* A session whose end was asked for is not started again, and one that is finished is
\* not touched any more, whatever commands still wait for it.
THEOREM NeverBackCorrect == Spec => Life!NeverBack
<1> DEFINE Ahead == /\ status \in Life!Leaving => status' \in Life!Leaving \cup Life!Over
                    /\ status \in Life!Over => UNCHANGED <<status, version>>
<1>1. ASSUME NEW S, S \subseteq Life!Leaving \cup Life!Over
      PROVE  Life!Saved(S) \subseteq Life!Leaving \cup Life!Over
  BY <1>1 DEF Life!Saved, Life!Successors, Life!Statuses, Life!Leaving, Life!Over
<1>2. ASSUME NEW S, S \subseteq Life!Over PROVE Life!Saved(S) = {}
  BY <1>2 DEF Life!Saved, Life!Successors, Life!Statuses, Life!Over
<1>3. ASSUME Life!Save PROVE Ahead
  <2>1. CASE status \in Life!Leaving
    <3>1. Life!Saved({status}) \subseteq Life!Leaving \cup Life!Over BY <1>1, <2>1
    <3>2. Life!Saved(Life!Saved({status})) \subseteq Life!Leaving \cup Life!Over BY <1>1, <3>1
    <3>3. Life!Saved(Life!Saved(Life!Saved({status}))) \subseteq Life!Leaving \cup Life!Over
      BY <1>1, <3>2
    <3>4. status \notin Life!Over BY <2>1 DEF Life!Leaving, Life!Over
    <3> QED BY <1>3, <3>1, <3>2, <3>3, <3>4 DEF Life!Save
  <2>2. CASE status \in Life!Over
    <3>1. Life!Saved({status}) = {} BY <1>2, <2>2
    <3>2. Life!Saved({}) = {} BY <1>2
    <3> QED BY <1>3, <3>1, <3>2 DEF Life!Save
  <2> QED BY <2>1, <2>2
<1>4. [Life!Save]_<<status, version>> => [Ahead]_<<status, version>>
  BY <1>3
<1> QED BY <1>4, FollowsLifeCorrect, PTL DEF FollowsLife, Life!NeverBack
=============================================================================
