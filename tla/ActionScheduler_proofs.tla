------------------------ MODULE ActionScheduler_proofs ------------------------
(***************************************************************************)
(* Theorems about ActionScheduler, for any set of units.                   *)
(*                                                                         *)
(* The inductive invariant says, unit by unit, what the position of its    *)
(* task tells about the gate, the display, the player and the results so   *)
(* far (Consistent), and which tasks are still at work once outputs have   *)
(* been cancelled (Stopping).  A step of one unit touches the others only  *)
(* through active, subtitle and stopped, which is why ownership of the     *)
(* gate is part of it.                                                     *)
(*                                                                         *)
(* The last section is about the stop itself: the executor's thread has    *)
(* one unit at work at a time, so one at most goes on.                     *)
(***************************************************************************)
EXTENDS ActionScheduler, TLAPS

Voicing == {"synthesizing", "playing", "recording"}

Owner(u) ==
    /\ pc[u] \in Inside => helper[u] = "acquired"
    /\ helper[u] = "acquired" /\ pc[u] \in Registered => active = u
    /\ pc[u] \in Voicing => subtitle = u

Progress(u) ==
    /\ pc[u] \in {"new", "admitted", "waiting", "resumed", "synthesizing"} => sound[u] = "none"
    /\ pc[u] \in {"new", "admitted", "waiting", "resumed"} => results[u] = <<>>
    /\ pc[u] \in Voicing => results[u] = <<"COMPLETED", "COMPLETED">>
    /\ pc[u] = "recording" => sound[u] = "ended"
    /\ pc[u] # "over" => report[u] = "none"
    /\ report[u] = "COMPLETED" => sound[u] = "ended"
    /\ report[u] \in {"CANCELED", "FAILED"} => sound[u] = "none" /\ results[u] = <<>>

Stopping(u) ==
    /\ cancelled[u] => stopped /\ pc[u] \in Registered
    /\ helper[u] \in {"submitted", "queued"} => pc[u] = "waiting" \/ stopped
    /\ stopped /\ u \in MainUnits =>
          pc[u] \in {"new", "over"} \/ (pc[u] \in Registered /\ cancelled[u] /\ pc[u] # "resumed")

Consistent == \A u \in Unit : Owner(u) /\ Progress(u) /\ Stopping(u)

IInv == TypeOK /\ Consistent /\ GateHasOwner

USE DEF Inside, Registered, Steps, MainUnits, ActionStatus, OutputStatuses, Voicing

-----------------------------------------------------------------------------
\* What execute returns for a unit whose subtitle and expression were shown:
\* COMPLETED if the SPEAK was, and PARTIALLY_COMPLETED otherwise, with or
\* without a gesture.
LEMMA ReportOfSpeech ==
    ASSUME NEW status \in ActionStatus, NEW shown, shown = <<"COMPLETED", "COMPLETED">>,
           NEW rest, rest \in {<<status>>, <<status, "COMPLETED">>}
    PROVE  /\ shown \o rest \in Seq(ActionStatus)
           /\ status = "COMPLETED" => OutputStatus(shown \o rest) = "COMPLETED"
           /\ status # "COMPLETED" => OutputStatus(shown \o rest) = "PARTIALLY_COMPLETED"
<1> DEFINE final == shown \o rest
<1>a. shown \in Seq(ActionStatus) /\ Len(shown) = 2
  OBVIOUS
<1>b. rest \in Seq(ActionStatus) /\ Len(rest) \in {1, 2}
  <2>1. CASE rest = <<status>>
    BY <2>1
  <2>2. CASE rest = <<status, "COMPLETED">>
    BY <2>2
  <2> QED
    BY <2>1, <2>2
<1>1. final \in Seq(ActionStatus) /\ Len(final) = 2 + Len(rest)
  BY <1>a, <1>b
<1>2. /\ final[1] = shown[1]
      /\ final[2] = shown[2]
      /\ final[3] = rest[1]
      /\ Len(rest) = 2 => final[4] = rest[2]
  BY <1>a, <1>b
<1>3. /\ shown[1] = "COMPLETED"
      /\ shown[2] = "COMPLETED"
      /\ rest[1] = status
      /\ Len(rest) = 2 => rest[2] = "COMPLETED"
  OBVIOUS
<1>4. DOMAIN final = 1..Len(final)
  BY <1>1
<1> HIDE DEF final
<1>5. 1 \in DOMAIN final /\ 3 \in DOMAIN final
  BY <1>1, <1>4, <1>b
<1>6. \A i \in DOMAIN final : i \in {1, 2, 3} \/ (i = 4 /\ Len(rest) = 2)
  <2>1. CASE Len(rest) = 1
    <3>1. DOMAIN final = 1..3
      BY <1>1, <1>4, <2>1
    <3> QED
      BY <3>1
  <2>2. CASE Len(rest) = 2
    <3>1. DOMAIN final = 1..4
      BY <1>1, <1>4, <2>2
    <3> QED
      BY <3>1, <2>2
  <2> QED
    BY <2>1, <2>2, <1>b
<1>7. CASE status = "COMPLETED"
  <2>1. \A i \in DOMAIN final : final[i] = "COMPLETED"
    BY <1>2, <1>3, <1>6, <1>7
  <2> QED
    BY <2>1, <1>1, <1>7 DEF OutputStatus, final
<1>8. CASE status # "COMPLETED"
  <2> DEFINE Some(s) == \E i \in DOMAIN final : final[i] = s
  <2>1. final[1] = "COMPLETED" /\ final[3] = status
    BY <1>2, <1>3
  <2>2. status \in {"FAILED", "CANCELED"}
    BY <1>8
  <2>3. Some("COMPLETED") /\ (Some("FAILED") \/ Some("CANCELED"))
    BY <2>1, <2>2, <1>5
  <2>4. ~ \A i \in DOMAIN final : final[i] = "COMPLETED"
    BY <2>1, <2>2, <1>5
  <2>5. OutputStatus(final) = "PARTIALLY_COMPLETED"
    BY <2>3, <2>4 DEF OutputStatus
  <2> QED
    BY <2>5, <1>1, <1>8 DEF final
<1> QED
  BY <1>7, <1>8

-----------------------------------------------------------------------------
\* The invariant holds initially.
LEMMA Initially == Init => IInv
<1> SUFFICES ASSUME Init PROVE IInv
  OBVIOUS
<1> USE UnitAssumption DEF Init
<1>1. TypeOK
  <2>1. <<>> \in Seq(ActionStatus)
    OBVIOUS
  <2> QED
    BY <2>1 DEF TypeOK
<1>2. ASSUME NEW u \in Unit PROVE Owner(u) /\ Progress(u) /\ Stopping(u)
  BY DEF Owner, Progress, Stopping
<1>3. GateHasOwner
  BY DEF GateHasOwner
<1> QED
  BY <1>1, <1>2, <1>3 DEF IInv, Consistent

\* The end of a SPEAK, however it came about, keeps the invariant: who it was
\* leaves the gate open and is reported according to what was heard.
LEMMA SpeechIsOverKeeps ==
    ASSUME IInv, NEW u \in Unit, NEW status \in ActionStatus,
           pc[u] \in Voicing, SpeechIsOver(u, status),
           sound' \in [Unit -> {"none", "playing", "ended", "cut"}],
           \A v \in Unit \ {u} : sound'[v] = sound[v],
           status = "COMPLETED" => sound'[u] = "ended"
    PROVE  IInv'
<1> USE UnitAssumption DEF IInv
<1> DEFINE rest == IF u \in Gesturing THEN <<status, "COMPLETED">> ELSE <<status>>
           final == results[u] \o rest
<1>1. results[u] = <<"COMPLETED", "COMPLETED">>
  BY DEF Consistent, Progress
<1>2. /\ final \in Seq(ActionStatus)
      /\ status = "COMPLETED" => OutputStatus(final) = "COMPLETED"
      /\ status # "COMPLETED" => OutputStatus(final) = "PARTIALLY_COMPLETED"
  BY <1>1, ReportOfSpeech
<1>3. /\ results' = [results EXCEPT ![u] = final]
      /\ report' = [report EXCEPT ![u] = OutputStatus(final)]
      /\ active' = NoUnit
      /\ cancelled' = [cancelled EXCEPT ![u] = FALSE]
      /\ pc' = [pc EXCEPT ![u] = "over"]
      /\ UNCHANGED <<stopped, helper, sequence, nextSequence, subtitle>>
  BY DEF SpeechIsOver, Goto
<1> HIDE DEF final
<1>4. TypeOK'
  BY <1>2, <1>3 DEF TypeOK
<1>5. ASSUME NEW v \in Unit PROVE Owner(v)'
  BY <1>3 DEF TypeOK, Consistent, Owner
<1>6. ASSUME NEW v \in Unit PROVE Progress(v)'
  BY <1>2, <1>3 DEF TypeOK, Consistent, Progress
<1>7. ASSUME NEW v \in Unit PROVE Stopping(v)'
  BY <1>3 DEF TypeOK, Consistent, Stopping
<1>8. GateHasOwner'
  BY <1>3 DEF GateHasOwner
<1> QED
  BY <1>4, <1>5, <1>6, <1>7, <1>8 DEF Consistent

\* Every step keeps the invariant.
LEMMA Inductive == IInv /\ [Next]_vars => IInv'
<1> SUFFICES ASSUME IInv, [Next]_vars PROVE IInv'
  OBVIOUS
<1> USE UnitAssumption DEF IInv, gateVars, outputVars, Goto
<1>1. ASSUME NEW u \in Unit, Admit(u) PROVE IInv'
  <2> USE <1>1 DEF Admit, Idle
  <2>1. TypeOK'
    BY DEF TypeOK
  <2>2. ASSUME NEW v \in Unit PROVE Owner(v)'
    BY DEF TypeOK, Consistent, Owner
  <2>3. ASSUME NEW v \in Unit PROVE Progress(v)'
    BY DEF TypeOK, Consistent, Progress
  <2>4. ASSUME NEW v \in Unit PROVE Stopping(v)'
    BY DEF TypeOK, Consistent, Stopping
  <2>5. GateHasOwner'
    BY DEF TypeOK, Consistent, GateHasOwner, Stopping
  <2> QED
    BY <2>1, <2>2, <2>3, <2>4, <2>5 DEF Consistent
<1>2. ASSUME NEW u \in Unit, Refuse(u) PROVE IInv'
  <2> USE <1>2 DEF Refuse, Idle
  <2>1. TypeOK'
    BY DEF TypeOK
  <2>2. ASSUME NEW v \in Unit PROVE Owner(v)'
    BY DEF TypeOK, Consistent, Owner
  <2>3. ASSUME NEW v \in Unit PROVE Progress(v)'
    BY DEF TypeOK, Consistent, Progress
  <2>4. ASSUME NEW v \in Unit PROVE Stopping(v)'
    BY DEF TypeOK, Consistent, Stopping
  <2>5. GateHasOwner'
    BY DEF TypeOK, Consistent, GateHasOwner, Stopping
  <2> QED
    BY <2>1, <2>2, <2>3, <2>4, <2>5 DEF Consistent
<1>3. ASSUME NEW u \in Unit, Join(u) PROVE IInv'
  <2> USE <1>3 DEF Join
  <2>1. TypeOK'
    BY DEF TypeOK
  <2>2. ASSUME NEW v \in Unit PROVE Owner(v)'
    BY DEF TypeOK, Consistent, Owner
  <2>3. ASSUME NEW v \in Unit PROVE Progress(v)'
    BY DEF TypeOK, Consistent, Progress
  <2>4. ASSUME NEW v \in Unit PROVE Stopping(v)'
    BY DEF TypeOK, Consistent, Stopping
  <2>5. GateHasOwner'
    BY DEF TypeOK, Consistent, GateHasOwner, Stopping
  <2> QED
    BY <2>1, <2>2, <2>3, <2>4, <2>5 DEF Consistent
<1>4. ASSUME NEW u \in Unit, Resume(u) PROVE IInv'
  <2> USE <1>4 DEF Resume
  <2>1. TypeOK'
    BY DEF TypeOK
  <2>2. ASSUME NEW v \in Unit PROVE Owner(v)'
    BY DEF TypeOK, Consistent, Owner
  <2>3. ASSUME NEW v \in Unit PROVE Progress(v)'
    BY DEF TypeOK, Consistent, Progress
  <2>4. ASSUME NEW v \in Unit PROVE Stopping(v)'
    BY DEF TypeOK, Consistent, Stopping
  <2>5. GateHasOwner'
    BY DEF TypeOK, Consistent, GateHasOwner, Stopping
  <2> QED
    BY <2>1, <2>2, <2>3, <2>4, <2>5 DEF Consistent
<1>5. ASSUME NEW u \in Unit, Show(u) PROVE IInv'
  <2> USE <1>5 DEF Show
  <2>1. TypeOK'
    BY DEF TypeOK
  <2>2. ASSUME NEW v \in Unit PROVE Owner(v)'
    BY DEF TypeOK, Consistent, Owner
  <2>3. ASSUME NEW v \in Unit PROVE Progress(v)'
    BY DEF TypeOK, Consistent, Progress
  <2>4. ASSUME NEW v \in Unit PROVE Stopping(v)'
    BY DEF TypeOK, Consistent, Stopping
  <2>5. GateHasOwner'
    BY DEF TypeOK, Consistent, GateHasOwner, Stopping
  <2> QED
    BY <2>1, <2>2, <2>3, <2>4, <2>5 DEF Consistent
<1>6. ASSUME NEW u \in Unit, Play(u) PROVE IInv'
  <2> USE <1>6 DEF Play
  <2>1. TypeOK'
    BY DEF TypeOK
  <2>2. ASSUME NEW v \in Unit PROVE Owner(v)'
    BY DEF TypeOK, Consistent, Owner
  <2>3. ASSUME NEW v \in Unit PROVE Progress(v)'
    BY DEF TypeOK, Consistent, Progress
  <2>4. ASSUME NEW v \in Unit PROVE Stopping(v)'
    BY DEF TypeOK, Consistent, Stopping
  <2>5. GateHasOwner'
    BY DEF TypeOK, Consistent, GateHasOwner, Stopping
  <2> QED
    BY <2>1, <2>2, <2>3, <2>4, <2>5 DEF Consistent
<1>7. ASSUME NEW u \in Unit, PlayReturns(u) PROVE IInv'
  <2> USE <1>7 DEF PlayReturns
  <2>1. TypeOK'
    BY DEF TypeOK
  <2>2. ASSUME NEW v \in Unit PROVE Owner(v)'
    BY DEF TypeOK, Consistent, Owner
  <2>3. ASSUME NEW v \in Unit PROVE Progress(v)'
    BY DEF TypeOK, Consistent, Progress
  <2>4. ASSUME NEW v \in Unit PROVE Stopping(v)'
    BY DEF TypeOK, Consistent, Stopping
  <2>5. GateHasOwner'
    BY DEF TypeOK, Consistent, GateHasOwner, Stopping
  <2> QED
    BY <2>1, <2>2, <2>3, <2>4, <2>5 DEF Consistent
<1>8. ASSUME NEW u \in Unit, HelperArrives(u) PROVE IInv'
  <2> USE <1>8 DEF HelperArrives
  <2>1. TypeOK'
    BY DEF TypeOK
  <2>2. ASSUME NEW v \in Unit PROVE Owner(v)'
    BY DEF TypeOK, Consistent, Owner
  <2>3. ASSUME NEW v \in Unit PROVE Progress(v)'
    BY DEF TypeOK, Consistent, Progress
  <2>4. ASSUME NEW v \in Unit PROVE Stopping(v)'
    BY DEF TypeOK, Consistent, Stopping
  <2>5. GateHasOwner'
    BY DEF TypeOK, Consistent, GateHasOwner, Stopping
  <2> QED
    BY <2>1, <2>2, <2>3, <2>4, <2>5 DEF Consistent
<1>9. ASSUME NEW u \in Unit, Acquire(u) PROVE IInv'
  <2> USE <1>9 DEF Acquire
  <2>1. TypeOK'
    BY DEF TypeOK
  <2>2. ASSUME NEW v \in Unit PROVE Owner(v)'
    BY DEF TypeOK, Consistent, Owner
  <2>3. ASSUME NEW v \in Unit PROVE Progress(v)'
    BY DEF TypeOK, Consistent, Progress
  <2>4. ASSUME NEW v \in Unit PROVE Stopping(v)'
    BY DEF TypeOK, Consistent, Stopping
  <2>5. GateHasOwner'
    BY DEF TypeOK, Consistent, GateHasOwner, Stopping
  <2> QED
    BY <2>1, <2>2, <2>3, <2>4, <2>5 DEF Consistent
<1>10. ASSUME NEW u \in Unit, SoundEnds(u) PROVE IInv'
  <2> USE <1>10 DEF SoundEnds
  <2>1. TypeOK'
    BY DEF TypeOK
  <2>2. ASSUME NEW v \in Unit PROVE Owner(v)'
    BY DEF TypeOK, Consistent, Owner
  <2>3. ASSUME NEW v \in Unit PROVE Progress(v)'
    BY DEF TypeOK, Consistent, Progress
  <2>4. ASSUME NEW v \in Unit PROVE Stopping(v)'
    BY DEF TypeOK, Consistent, Stopping
  <2>5. GateHasOwner'
    BY DEF TypeOK, Consistent, GateHasOwner, Stopping
  <2> QED
    BY <2>1, <2>2, <2>3, <2>4, <2>5 DEF Consistent
<1>11. ASSUME NEW u \in Unit, CancelledWaiting(u) PROVE IInv'
  <2> USE <1>11 DEF CancelledWaiting
  <2>1. TypeOK'
    BY DEF TypeOK
  <2>2. ASSUME NEW v \in Unit PROVE Owner(v)'
    BY DEF TypeOK, Consistent, Owner
  <2>3. ASSUME NEW v \in Unit PROVE Progress(v)'
    BY DEF TypeOK, Consistent, Progress
  <2>4. ASSUME NEW v \in Unit PROVE Stopping(v)'
    BY DEF TypeOK, Consistent, Stopping
  <2>5. GateHasOwner'
    BY DEF TypeOK, Consistent, GateHasOwner, Stopping
  <2> QED
    BY <2>1, <2>2, <2>3, <2>4, <2>5 DEF Consistent
<1>12. CASE CancelOutputs
  <2> USE <1>12 DEF CancelOutputs, MainLoopFree
  <2>1. TypeOK'
    BY DEF TypeOK
  <2>2. ASSUME NEW v \in Unit PROVE Owner(v)'
    BY DEF TypeOK, Consistent, Owner
  <2>3. ASSUME NEW v \in Unit PROVE Progress(v)'
    BY DEF TypeOK, Consistent, Progress
  <2>4. ASSUME NEW v \in Unit PROVE Stopping(v)'
    BY DEF TypeOK, Consistent, Stopping
  <2>5. GateHasOwner'
    BY DEF TypeOK, Consistent, GateHasOwner, Stopping
  <2> QED
    BY <2>1, <2>2, <2>3, <2>4, <2>5 DEF Consistent
<1>13. ASSUME NEW u \in Unit, Recorded(u) PROVE IInv'
  <2>1. sound[u] = "ended"
    BY <1>13 DEF Consistent, Progress, Recorded
  <2> QED
    BY <1>13, <2>1, SpeechIsOverKeeps DEF Recorded, TypeOK
<1>14. ASSUME NEW u \in Unit, SpeechFails(u) PROVE IInv'
  <2>1. /\ pc[u] \in Voicing
        /\ SpeechIsOver(u, "FAILED")
        /\ sound' = sound \/ sound' = [sound EXCEPT ![u] = "cut"]
    BY <1>14 DEF SpeechFails
  <2>2. /\ sound' \in [Unit -> {"none", "playing", "ended", "cut"}]
        /\ \A v \in Unit \ {u} : sound'[v] = sound[v]
    BY <2>1 DEF TypeOK
  <2> QED
    BY <2>1, <2>2, SpeechIsOverKeeps
<1>15. ASSUME NEW u \in Unit, CancelledSpeaking(u) PROVE IInv'
  BY <1>15, SpeechIsOverKeeps DEF CancelledSpeaking, TypeOK
<1>16. CASE UNCHANGED vars
  <2> USE <1>16 DEF vars
  <2>1. TypeOK'
    BY DEF TypeOK
  <2>2. ASSUME NEW v \in Unit PROVE Owner(v)'
    BY DEF TypeOK, Consistent, Owner
  <2>3. ASSUME NEW v \in Unit PROVE Progress(v)'
    BY DEF TypeOK, Consistent, Progress
  <2>4. ASSUME NEW v \in Unit PROVE Stopping(v)'
    BY DEF TypeOK, Consistent, Stopping
  <2>5. GateHasOwner'
    BY DEF TypeOK, Consistent, GateHasOwner, Stopping
  <2> QED
    BY <2>1, <2>2, <2>3, <2>4, <2>5 DEF Consistent
<1> QED
  BY <1>1, <1>2, <1>3, <1>4, <1>5, <1>6, <1>7, <1>8, <1>9, <1>10, <1>11, <1>12, <1>13, <1>14, <1>15, <1>16 DEF Next, TaskNext, HelperNext

-----------------------------------------------------------------------------
\* The invariant holds throughout every behaviour.
THEOREM Invariant == Spec => []IInv
BY Initially, Inductive, PTL DEF Spec

\* Types are kept.
THEOREM TypeCorrect == Spec => []TypeOK
<1>1. IInv => TypeOK
  BY DEF IInv
<1> QED
  BY <1>1, Invariant, PTL

\* At most one unit is between acquire and release, for any number of units on
\* the two loops, whatever is cancelled.
THEOREM ExclusionCorrect == Spec => []OneUnitAtATime
<1>1. IInv => OneUnitAtATime
  BY DEF IInv, Consistent, Owner, OneUnitAtATime
<1> QED
  BY <1>1, Invariant, PTL

\* The subtitle on display is that of the unit that is being voiced.
THEOREM SubtitleCorrect == Spec => []SubtitleOfSpeaker
<1>1. IInv => SubtitleOfSpeaker
  BY DEF IInv, Consistent, Owner, SubtitleOfSpeaker
<1> QED
  BY <1>1, Invariant, PTL

\* Only cancelling outputs can leave the gate closed without an owner.
THEOREM GateHasOwnerCorrect == Spec => []GateHasOwner
<1>1. IInv => GateHasOwner
  BY DEF IInv
<1> QED
  BY <1>1, Invariant, PTL

\* What is reported is what was heard.
THEOREM ReportCorrect == Spec => []ReportMatchesSound
<1>1. IInv => ReportMatchesSound
  BY DEF IInv, Consistent, Progress, ReportMatchesSound
<1> QED
  BY <1>1, Invariant, PTL

\* After cancel_outputs no unit of the main loop starts its voice: the only
\* step that starts one needs a task that is not cancelled.
THEOREM SilenceCorrect == Spec => MainLoopFallsSilent
<1> DEFINE Silent == stopped => \A u \in MainUnits : sound[u] = "none" => sound'[u] = "none"
<1>1. IInv /\ [Next]_vars => [Silent]_vars
  <2> SUFFICES ASSUME IInv, Next, stopped, NEW u \in MainUnits, sound[u] = "none"
               PROVE  sound'[u] = "none"
    OBVIOUS
  <2>1. sound' = sound \/ \E v \in Unit : Play(v) \/ SoundEnds(v) \/ SpeechFails(v)
    BY DEF Next, TaskNext, HelperNext, Admit, Refuse, Join, Resume, Show, PlayReturns,
           Recorded, CancelledWaiting, CancelledSpeaking, HelperArrives, Acquire,
           CancelOutputs, outputVars
  <2>2. ASSUME NEW v \in Unit, Play(v) PROVE v # u
    BY <2>2 DEF IInv, Consistent, Stopping, Play
  <2>3. ASSUME NEW v \in Unit, SoundEnds(v) \/ SpeechFails(v) PROVE sound'[u] = "none"
    BY <2>3 DEF SoundEnds, SpeechFails, IInv, TypeOK
  <2> QED
    BY <2>1, <2>2, <2>3 DEF Play, IInv, TypeOK
<1> QED
  BY <1>1, Invariant, PTL DEF Spec, MainLoopFallsSilent

-----------------------------------------------------------------------------
\* The executor thread has one unit at work at a time.
OneOnThread ==
    \A u, v \in ThreadUnits : u = v \/ pc[u] \in {"new", "over"} \/ pc[v] \in {"new", "over"}

LEMMA OneOnThreadKeeps ==
  ASSUME IInv, OneOnThread, [Next]_vars
  PROVE  OneOnThread'
<1>1. CASE UNCHANGED pc
  BY <1>1 DEF OneOnThread
<1>2. ASSUME NEW u \in Unit, Admit(u)
      PROVE  OneOnThread'
  <2>1. /\ pc' = [pc EXCEPT ![u] = "admitted"]
        /\ u \in ThreadUnits => \A v \in ThreadUnits \ {u} : pc[v] \in {"new", "over"}
    BY <1>2 DEF Admit, Goto, Idle
  <2> QED BY <2>1 DEF OneOnThread, IInv, TypeOK
<1>3. ASSUME NEW u \in Unit, NEW step, Goto(u, step), step = "over" \/ pc[u] \notin {"new", "over"}
      PROVE  OneOnThread'
  <2>1. pc' = [pc EXCEPT ![u] = step]
    BY <1>3 DEF Goto
  <2> QED BY <1>3, <2>1 DEF OneOnThread, IInv, TypeOK
<1>4. ASSUME NEW u \in Unit, Refuse(u) \/ TaskNext(u)
      PROVE  OneOnThread'
  BY <1>3, <1>4 DEF Refuse, TaskNext, Join, Resume, Show, Play, PlayReturns, Recorded,
     SpeechFails, SpeechIsOver, CancelledWaiting, CancelledSpeaking
<1>5. ASSUME NEW u \in Unit, HelperNext(u) \/ SoundEnds(u)
      PROVE  UNCHANGED pc
  BY <1>5 DEF HelperNext, HelperArrives, Acquire, SoundEnds
<1> QED BY <1>1, <1>2, <1>4, <1>5 DEF Next, CancelOutputs, vars

\* Whatever the two threads do between the latch and _running_tasks, one unit at most
\* is left at work uncancelled by cancel_outputs, and it is the executor thread's.
THEOREM OneSlipsThroughCorrect == Spec => []OneSlipsThrough
<1>1. Init => OneOnThread
  BY UnitAssumption DEF Init, OneOnThread
<1>2. IInv /\ OneOnThread /\ [Next]_vars => OneOnThread'
  BY OneOnThreadKeeps
<1>3. IInv /\ OneOnThread => OneSlipsThrough
  <2> SUFFICES ASSUME IInv, OneOnThread, stopped, NEW u \in AtWork, ~cancelled[u]
               PROVE  u \in ThreadUnits /\ \A v \in AtWork \ {u} : cancelled[v]
    BY DEF OneSlipsThrough, IInv, TypeOK
  <2>1. ASSUME NEW v \in AtWork, v \in MainUnits PROVE cancelled[v]
    BY <2>1 DEF AtWork, IInv, Consistent, Stopping
  <2>2. AtWork \subseteq Unit /\ \A v \in AtWork : pc[v] \notin {"new", "over"}
    BY DEF AtWork
  <2>3. u \in ThreadUnits
    BY <2>1, <2>2
  <2>4. ASSUME NEW v \in AtWork \ {u} PROVE v \in MainUnits
    BY <2>2, <2>3, <2>4 DEF OneOnThread
  <2> QED BY <2>1, <2>3, <2>4
<1> QED
  BY <1>1, <1>2, <1>3, Invariant, PTL DEF Spec
=============================================================================
