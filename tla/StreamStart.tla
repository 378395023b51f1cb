------------------------------ MODULE StreamStart ------------------------------
(***************************************************************************)
(* A stream session from its creation until its end begins: preparation,   *)
(* approved start, opening and main segment, with the lifecycle gate that  *)
(* the last two ask.                                                       *)
(*                                                                         *)
(* Commands are tasks of one asyncio loop.  A step of the model is what a  *)
(* task does between two awaits: of the checks, of OBS and YouTube, and of *)
(* the speeches.  The end (StreamEnd) may begin at any of them.            *)
(***************************************************************************)
EXTENDS Preparation, Integers, Sequences, FiniteSets

CONSTANTS
    MaxSessions,    \* bound: sessions that are created
    Prepares,       \* prepare commands
    Naming,         \* those of them that name a session; the console never does
    Starts,         \* ApproveStreamStartCommands
    NoPrepare,      \* nobody has the lock
    Retries,        \* RetryOpeningCommands and RetryMainSegmentCommands
    MaxAttempts,    \* bound: attempts of an opening or a main segment
    Order           \* bound: of two commands that are alike, which comes first

ASSUME StartAssumption ==
    /\ MaxSessions \in Nat /\ MaxAttempts \in Nat
    /\ Naming \subseteq Prepares /\ NoPrepare \notin Prepares
    /\ Prepares \cap (Starts \cup Retries) = {} /\ Starts \cap Retries = {}
    /\ Order \subseteq (Prepares \X Prepares) \cup (Starts \X Starts) \cup (Retries \X Retries)

VARIABLES
    status,         \* StreamSession.status
    version,        \* StreamSession.state_version
    opening, main,  \* status and attempt of the session's two activities
    verified,       \* StreamMainSegmentUsecase._verified_states has the session
    external,       \* StreamLifecycleGate._external has it: all states were read
    obs, stream,    \* what OBS and the stream do that it sends to
    broadcast,      \* what the broadcast of each session does
    pc,             \* where the task of each command is
    target,         \* its session
    known,          \* the version it expects, then that of its own copy
    lock, queue,    \* of PrepareStreamSessionUsecase
    survey          \* what the preparation that has the lock has read

sessionVars == <<status, version>>
segmentVars == <<opening, main, verified, external>>
worldVars == <<obs, stream, broadcast>>
taskVars == <<pc, target, known>>
lockVars == <<lock, queue, survey>>
vars == <<sessionVars, segmentVars, worldVars, taskVars, lockVars>>

Sessions == 1..MaxSessions
Commands == Prepares \cup Starts \cup Retries

Statuses == {"CREATED", "PREPARING", "READY", "FAILED", "STARTING",
             "START_FAILED", "LIVE", "ENDING", "ENDED"}
\* START_APPROVED is left before any await; StreamEnd tells ENDING and ENDED apart.
Active == Statuses \ {"FAILED", "ENDED"}
Steps == {"obsStatus", "obsStart", "obsActive", "streamActive", "broadcastStatus",
          "goLive", "broadcastLive", "confirmObs", "confirmStream", "confirmLive"}
Speeches == {"opening", "main"}

\* _youtube_checks, in their order
Checks == {"signIn", "findBroadcast", "findStream", "readBroadcast", "readStream", "readRest"}

Created(s) == status[s] # "none"

\* find_active_or_preparing: the first in the order of creation.
Mine == {s \in Sessions : status[s] \in Active}
FirstActive == CHOOSE s \in Mine : \A t \in Mine : s <= t

Segment(st, n) == [status |-> st, attempt |-> n]

Init ==
    /\ status = [s \in Sessions |-> "none"] /\ version = [s \in Sessions |-> 0]
    /\ opening = [s \in Sessions |-> Segment("none", 0)]
    /\ main = [s \in Sessions |-> Segment("none", 0)]
    /\ verified = [s \in Sessions |-> FALSE] /\ external = [s \in Sessions |-> FALSE]
    /\ obs = "idle" /\ stream = "ready" /\ broadcast = [s \in Sessions |-> "ready"]
    /\ pc = [c \in Commands |-> "new"]
    /\ target = [c \in Commands |-> 0] /\ known = [c \in Commands |-> 0]
    /\ lock = NoPrepare /\ queue = <<>> /\ survey = NoSurvey

\* No command is before its turn.
Arrives(c) == pc[c] = "new" /\ \A d \in Commands : <<d, c>> \in Order => pc[d] # "new"

Goto(c, step) == pc' = [pc EXCEPT ![c] = step]

\* transition and save: one step of the version.
Save(s, st, steps) ==
    /\ status' = [status EXCEPT ![s] = st]
    /\ version' = [version EXCEPT ![s] = @ + steps]

\* attach_opening, attach_main_segment
Attach(s) == Save(s, status[s], 1)

-----------------------------------------------------------------------------
\* OBS and YouTube, with those who operate them by hand.
WorldMoves ==
    /\ \/ obs = "starting" /\ obs' = "active" /\ UNCHANGED <<stream, broadcast>>
       \/ obs = "active" /\ obs' = "idle" /\ UNCHANGED <<stream, broadcast>>
       \/ \* bound: started by hand while a session is prepared only
          /\ lock # NoPrepare /\ obs = "idle" /\ obs' = "active"
          /\ UNCHANGED <<stream, broadcast>>
       \/ /\ stream' = IF obs = "active" THEN "active" ELSE "ready"
          /\ stream' # stream /\ UNCHANGED <<obs, broadcast>>
       \/ \E s \in Sessions : /\ broadcast[s] = "live"
                             /\ broadcast' = [broadcast EXCEPT ![s] = "complete"]
                             /\ UNCHANGED <<obs, stream>>
    /\ UNCHANGED <<sessionVars, segmentVars, taskVars, lockVars>>

\* approve_end, emergency_stop: see StreamEnd.
EndBegins(s) ==
    /\ status[s] = "LIVE"
    /\ Save(s, "ENDING", 2)
    /\ UNCHANGED <<segmentVars, worldVars, taskVars, lockVars>>

EndFinishes(s) ==
    /\ status[s] = "ENDING"
    /\ Save(s, "ENDED", 1)
    /\ obs' = "idle" /\ broadcast' = [broadcast EXCEPT ![s] = "complete"]
    /\ UNCHANGED <<segmentVars, stream, taskVars, lockVars>>

-----------------------------------------------------------------------------
\* Mutant: a session that is ready is taken for a finished one.
ChoosesFresh(p, s) ==
    \/ p \in Naming /\ Created(s)
    \/ Mine # {} /\ s = FirstActive /\ status[s] # "READY"
    \/ (\A t \in Mine : status[t] = "READY") /\ ~Created(s) /\ \A t \in 1..(s - 1) : Created(t)

\* The session of the command: the one it names, or that is active, or a new one.
Chooses(p, s) ==
    \/ p \in Naming /\ Created(s)
    \/ Mine # {} /\ s = FirstActive
    \/ Mine = {} /\ ~Created(s) /\ \A t \in 1..(s - 1) : Created(t)

ArrivePrepare(p, s) ==
    /\ Arrives(p) /\ Chooses(p, s)
    /\ status' = [status EXCEPT ![s] = IF @ = "none" THEN "CREATED" ELSE @]
    /\ target' = [target EXCEPT ![p] = s]
    /\ known' = [known EXCEPT ![p] = version[s]]
    /\ queue' = Append(queue, p)
    /\ Goto(p, "queued")
    /\ UNCHANGED <<version, segmentVars, worldVars, lock, survey>>

\* Mutant: whatever the session is at, it is prepared again.
PreparableAlways(p) == version[target[p]] = known[p]

\* _execute_once goes on to its checks
Preparable(p) ==
    /\ version[target[p]] = known[p]
    /\ status[target[p]] \in {"CREATED", "READY", "FAILED"}

\* The lock is passed on in order of arrival.
EnterPrepare(p) ==
    /\ pc[p] = "queued" /\ lock = NoPrepare /\ Head(queue) = p
    /\ queue' = Tail(queue)
    /\ \/ /\ Preparable(p)
          /\ lock' = p /\ survey' = NoSurvey
          /\ Save(target[p], "PREPARING", 1)
          /\ known' = [known EXCEPT ![p] = version[target[p]] + 1]
          /\ Goto(p, "signIn")
       \/ /\ ~Preparable(p)
          /\ Goto(p, "done")
          /\ UNCHANGED <<sessionVars, known, lock, survey>>
    /\ UNCHANGED <<segmentVars, worldVars, target>>

\* The next of the checks of YouTube is answered.
CheckYouTube(p) ==
    LET b == broadcast[target[p]]
        Answer(call, surveys, next) == pc[p] = call /\ survey' \in surveys /\ Goto(p, next)
    IN  /\ \/ Answer("signIn", SignsIn(survey), "findBroadcast")
           \/ Answer("findBroadcast", FindsBroadcast(survey, b), "findStream")
           \/ Answer("findStream", FindsStream(survey, b), "readBroadcast")
           \/ Answer("readBroadcast", ReadsBroadcast(survey, b), "readStream")
           \/ Answer("readStream", ReadsStream(survey, stream), "readRest")
        /\ UNCHANGED <<sessionVars, segmentVars, worldVars, target, known, lock, queue>>

\* So is that of OBS, beside them.
CheckObs(p) ==
    /\ pc[p] \in Checks /\ ~survey.obs
    /\ survey' \in ReadsObs(survey, obs)
    /\ UNCHANGED <<sessionVars, segmentVars, worldVars, taskVars, lock, queue>>

Prepared(p, st) ==
    /\ Save(target[p], st, 1)
    /\ lock' = NoPrepare /\ survey' = NoSurvey
    /\ Goto(p, "done")
    /\ UNCHANGED <<segmentVars, worldVars, target, known, queue>>

\* All checks are there, the last of them just now.
EndPrepare(p) ==
    /\ pc[p] = "readRest" /\ survey.obs
    /\ \E chat \in ReadsChat(survey) : \E all \in ReadsOwn(chat) :
          Prepared(p, IF Ready(all) THEN "READY" ELSE "FAILED")

\* _cancel: the command's task was cancelled at its checks.
CancelPrepare(p) == pc[p] \in Checks /\ Prepared(p, "FAILED")

-----------------------------------------------------------------------------
\* approve_start: one task at a time, until it has spoken.
Approve(c, s) ==
    /\ Arrives(c)
    /\ \A d \in Starts : pc[d] \in {"new", "done"}
    /\ status[s] \in {"READY", "START_FAILED"}
    /\ target' = [target EXCEPT ![c] = s]
    /\ known' = [known EXCEPT ![c] = version[s]]
    /\ Goto(c, "accepted")
    /\ UNCHANGED <<sessionVars, segmentVars, worldVars, lockVars>>

\* Mutant: a failed start is approved again without being READY first.
BeginStartDirectly(c) ==
    /\ pc[c] = "accepted"
    /\ \/ /\ version[target[c]] = known[c] /\ status[target[c]] \in {"READY", "START_FAILED"}
          /\ Save(target[c], "STARTING", 2)
          /\ known' = [known EXCEPT ![c] = @ + 2]
          /\ Goto(c, "obsStatus")
       \/ /\ version[target[c]] # known[c]
          /\ Goto(c, "done")
          /\ UNCHANGED <<sessionVars, known>>
    /\ UNCHANGED <<segmentVars, worldVars, target, lockVars>>

\* The task begins, and validates again.
BeginStart(c) ==
    LET s == target[c]
        steps == IF status[s] = "START_FAILED" THEN 3 ELSE 2 IN
    /\ pc[c] = "accepted"
    /\ \/ /\ version[s] = known[c] /\ status[s] \in {"READY", "START_FAILED"}
          /\ Save(s, "STARTING", steps)
          /\ known' = [known EXCEPT ![c] = @ + steps]
          /\ Goto(c, "obsStatus")
       \/ /\ version[s] # known[c]
          /\ Goto(c, "done")
          /\ UNCHANGED <<sessionVars, known>>
    /\ UNCHANGED <<segmentVars, worldVars, target, lockVars>>

\* What the answer of OBS or YouTube leads to.
Continuation(c) ==
    CASE pc[c] = "obsStatus" -> IF obs = "idle" THEN "obsStart" ELSE "obsActive"
      [] pc[c] = "obsStart" -> "obsActive"
      [] pc[c] = "obsActive" -> "streamActive"
      [] pc[c] = "streamActive" -> "broadcastStatus"
      [] pc[c] = "broadcastStatus" -> IF broadcast[target[c]] = "live" THEN "broadcastLive"
                                  ELSE "goLive"
      [] pc[c] = "goLive" -> "broadcastLive"
      [] pc[c] = "broadcastLive" -> "confirmObs"
      [] pc[c] = "confirmObs" -> "confirmStream"
      [] pc[c] = "confirmStream" -> "confirmLive"

\* What must have been read for it.
Answered(c) ==
    /\ pc[c] \in {"obsActive", "confirmObs"} => obs = "active"
    /\ pc[c] \in {"streamActive", "confirmStream"} => stream = "active"
    /\ pc[c] = "broadcastStatus" => broadcast[target[c]] # "complete"
    /\ pc[c] \in {"broadcastLive", "confirmLive"} => broadcast[target[c]] = "live"

MayTakeEffect(c) ==
    /\ obs' \in IF pc[c] = "obsStart" /\ obs = "idle" THEN {"idle", "starting"} ELSE {obs}
    /\ \E b \in IF pc[c] = "goLive" /\ broadcast[target[c]] = "ready" THEN {"ready", "live"}
                ELSE {broadcast[target[c]]} : broadcast' = [broadcast EXCEPT ![target[c]] = b]
    /\ UNCHANGED stream

StepStart(c) ==
    /\ pc[c] \in Steps \ {"confirmLive"} /\ Answered(c)
    /\ MayTakeEffect(c)
    /\ Goto(c, Continuation(c))
    /\ UNCHANGED <<sessionVars, segmentVars, target, known, lockVars>>

\* Mutant: polling goes on for ever.
FailStartPatiently(c) ==
    /\ pc[c] \in Steps \ {"obsActive", "streamActive", "broadcastLive"}
    /\ MayTakeEffect(c)
    /\ Save(target[c], "START_FAILED", 1)
    /\ Goto(c, "done")
    /\ UNCHANGED <<segmentVars, target, known, lockVars>>

\* A call raised, a poll ran out of time, a status is not the one that must follow.
FailStart(c) ==
    /\ pc[c] \in Steps
    /\ MayTakeEffect(c)
    /\ Save(target[c], "START_FAILED", 1)
    /\ Goto(c, "done")
    /\ UNCHANGED <<segmentVars, target, known, lockVars>>

\* The lifecycle gate's evaluate, for START_OPENING and START_MAIN_SEGMENT.
GateAllows(s, st, ext, needsOpening) ==
    /\ \A t \in Mine : t >= s
    /\ st = "LIVE" /\ ext
    /\ needsOpening => opening[s].status = "COMPLETED"

\* StreamOpeningUsecase.start: the opening speaks, or there is nothing to say, or
\* the gate refuses and the task dies of it.
StartsOpening(c, s) ==
    /\ external' = [external EXCEPT ![s] = TRUE]
    /\ IF GateAllows(s, "LIVE", TRUE, FALSE)
       THEN /\ Save(s, "LIVE", 2)
            /\ \/ opening' = [opening EXCEPT ![s] = Segment("SPEAKING", 1)] /\ Goto(c, "opening")
               \/ opening' = [opening EXCEPT ![s] = Segment("FAILED", 1)] /\ Goto(c, "done")
       ELSE Save(s, "LIVE", 1) /\ Goto(c, "done") /\ UNCHANGED opening

\* The session is LIVE, and the same task starts its opening.
GoLive(c) ==
    /\ pc[c] = "confirmLive" /\ Answered(c)
    /\ StartsOpening(c, target[c])
    /\ UNCHANGED <<main, verified, worldVars, target, known, lockVars>>

-----------------------------------------------------------------------------
\* The two segments.  The task of a start or of a retry waits for the speech.

FailOpening(c) ==
    /\ pc[c] = "opening"
    /\ opening' = [opening EXCEPT ![target[c]].status = "FAILED"]
    /\ Goto(c, "done")
    /\ UNCHANGED <<sessionVars, main, verified, external, worldVars, target, known, lockVars>>

\* Mutant: the main segment does not ask whether the session is still LIVE.
MainAllowedAlways(s) == TRUE

\* StreamMainSegmentUsecase.start, asked with states nobody has read again.
MainAllowed(s) ==
    /\ status[s] = "LIVE"
    /\ \A t \in Mine : t >= s

EndOpening(c) ==
    LET s == target[c] IN
    /\ pc[c] = "opening"
    /\ opening' = [opening EXCEPT ![s].status = "COMPLETED"]
    /\ \/ /\ ~MainAllowed(s)
          /\ Goto(c, "done")
          /\ UNCHANGED <<sessionVars, main, verified, external>>
       \/ /\ MainAllowed(s)
          /\ external' = [external EXCEPT ![s] = TRUE]
          /\ main' = [main EXCEPT ![s] = Segment("SPEAKING", 1)]
          /\ verified' = [verified EXCEPT ![s] = TRUE]
          /\ Attach(s)
          /\ Goto(c, "main")
       \/ \* the RunOfShow has no main segment, or one without a topic
          /\ MainAllowed(s)
          /\ external' = [external EXCEPT ![s] = TRUE]
          /\ main' = [main EXCEPT ![s] = Segment("FAILED", 1)]
          /\ Goto(c, "done")
          /\ \/ UNCHANGED <<sessionVars, verified>>
             \/ verified' = [verified EXCEPT ![s] = TRUE] /\ Attach(s)
    /\ UNCHANGED <<worldVars, target, known, lockVars>>

EndMain(c) ==
    /\ pc[c] = "main"
    /\ \E st \in {"COMPLETED", "FAILED"} : main' = [main EXCEPT ![target[c]].status = st]
    /\ Goto(c, "done")
    /\ UNCHANGED <<sessionVars, opening, verified, external, worldVars, target, known, lockVars>>

\* The operator saw the activity at an attempt, and asks for another.
SeeSegment(r, s) ==
    /\ Arrives(r) /\ Created(s)
    /\ \E step \in Speeches :
        LET seen == IF step = "opening" THEN opening[s] ELSE main[s] IN
        /\ seen.status = "FAILED" /\ seen.attempt < MaxAttempts
        /\ known' = [known EXCEPT ![r] = seen.attempt]
        /\ Goto(r, IF step = "opening" THEN "sawOpening" ELSE "sawMain")
    /\ target' = [target EXCEPT ![r] = s]
    /\ UNCHANGED <<sessionVars, segmentVars, worldVars, lockVars>>

\* Mutant: only the session is looked at.
RetryableAnyway(r, seg) == status[target[r]] = "LIVE"

Retryable(r, seg) ==
    /\ seg.status = "FAILED" /\ seg.attempt = known[r]
    /\ status[target[r]] = "LIVE"

Again(seg) == Segment("SPEAKING", seg.attempt + 1)

RetryOpening(r) ==
    LET s == target[r] IN
    /\ pc[r] = "sawOpening"
    /\ \/ /\ Retryable(r, opening[s])
          /\ opening' = [opening EXCEPT ![s] = Again(@)]
          /\ Goto(r, "opening")
       \/ /\ ~Retryable(r, opening[s])
          /\ Goto(r, "done") /\ UNCHANGED opening
    /\ UNCHANGED <<sessionVars, main, verified, external, worldVars, target, known, lockVars>>

RetryMain(r) ==
    LET s == target[r] IN
    /\ pc[r] = "sawMain"
    /\ \/ /\ Retryable(r, main[s]) /\ verified[s]
          /\ main' = [main EXCEPT ![s] = Again(@)]
          /\ Goto(r, "main")
       \/ /\ ~(Retryable(r, main[s]) /\ verified[s])
          /\ Goto(r, "done") /\ UNCHANGED main
    /\ UNCHANGED <<sessionVars, opening, verified, external, worldVars, target, known, lockVars>>

-----------------------------------------------------------------------------
TaskNext(c) ==
    \/ c \in Prepares /\ (EnterPrepare(c) \/ CheckYouTube(c) \/ CheckObs(c) \/ EndPrepare(c))
    \/ c \in Starts /\ (BeginStart(c) \/ StepStart(c) \/ FailStart(c) \/ GoLive(c))
    \/ c \in Retries /\ (RetryOpening(c) \/ RetryMain(c))
    \/ c \in Starts \cup Retries /\ (FailOpening(c) \/ EndOpening(c) \/ EndMain(c))

Next ==
    \/ WorldMoves
    \/ \E p \in Prepares : CancelPrepare(p)
    \/ \E c \in Commands : TaskNext(c)
    \/ \E s \in Sessions :
        \/ EndBegins(s) \/ EndFinishes(s)
        \/ \E p \in Prepares : ArrivePrepare(p, s)
        \/ \E c \in Starts : Approve(c, s)
        \/ \E r \in Retries : SeeSegment(r, s)

\* Tasks are scheduled, every check and every poll has a timeout, and a speech is
\* executed or cancelled.
Spec == Init /\ [][Next]_vars
FairSpec == Spec /\ \A c \in Commands : WF_vars(TaskNext(c))
-----------------------------------------------------------------------------
\* Type invariant.
TypeOK ==
    /\ status \in [Sessions -> Statuses \cup {"none"}]
    /\ version \in [Sessions -> Nat]
    /\ opening \in [Sessions -> [status : {"none", "SPEAKING", "COMPLETED", "FAILED"},
                                 attempt : 0..MaxAttempts]]
    /\ main \in [Sessions -> [status : {"none", "SPEAKING", "COMPLETED", "FAILED"},
                              attempt : 0..MaxAttempts]]
    /\ verified \in [Sessions -> BOOLEAN] /\ external \in [Sessions -> BOOLEAN]
    /\ obs \in {"idle", "starting", "active"} /\ stream \in {"ready", "active"}
    /\ broadcast \in [Sessions -> {"ready", "live", "complete"}]
    /\ pc \in [Commands -> Steps \cup Speeches \cup Checks
                    \cup {"new", "queued", "accepted", "sawOpening", "sawMain", "done"}]
    /\ target \in [Commands -> 0..MaxSessions] /\ known \in [Commands -> Nat]
    /\ lock \in Prepares \cup {NoPrepare} /\ queue \in Seq(Prepares)
    /\ survey \in [obs : BOOLEAN, bound : BOOLEAN, failed : BOOLEAN,
                   status : {"ready", "live", "complete", "unknown"}]

\* The two usecases have a lock each and keep a copy of the session over their
\* awaits, while the repository refuses a copy that is not the newest.  A session
\* that is being prepared or started is in the hands of one task, and its copy is
\* current: no save is refused, and no session stays PREPARING or STARTING.
OneOwner ==
    \A s \in Sessions :
        LET owners == {c \in Commands : target[c] = s /\ pc[c] \in Steps \cup Checks} IN
        /\ Cardinality(owners) = IF status[s] \in {"PREPARING", "STARTING"} THEN 1 ELSE 0
        /\ \A c \in owners : known[c] = version[s]

\* InMemoryStreamSessionRepository.create: there is one session that is prepared,
\* started, live or ending.
OneActiveSession == Cardinality(Mine) <= 1

\* docs/policy/youtube_streaming_policy.txt: no second opening, whatever is retried
\* when.  A segment that speaks has one task that speaks it, the main segment does
\* not begin before the opening is completed, and nothing begins after LIVE.
SegmentsInOrder ==
    [][ \A s \in Sessions :
        LET speakers(step) == {c \in Commands : target[c] = s /\ pc[c] = step}
            begins(seg) == seg[s].status # "SPEAKING" /\ seg'[s].status = "SPEAKING" IN
        /\ begins(opening) => main[s].status = "none" /\ status'[s] = "LIVE"
        /\ begins(main) => opening'[s].status = "COMPLETED" /\ status'[s] = "LIVE"
        /\ Cardinality(speakers("opening")) + Cardinality(speakers("main"))
              = IF "SPEAKING" \in {opening[s].status, main[s].status} THEN 1 ELSE 0
      ]_vars

\* No session stays PREPARING or STARTING: the checks and the polls time out.
StartsSettle ==
    \A s \in Sessions :
        status[s] \in {"PREPARING", "STARTING"} ~> status[s] \notin {"PREPARING", "STARTING"}

\* The end as an emergency stop takes it (StreamEnd has both ways).
LifeStatus(s) ==
    CASE status[s] = "ENDING" -> "EMERGENCY_STOPPING"
      [] status[s] = "ENDED" -> "EMERGENCY_STOPPED"
      [] OTHER -> status[s]

Life(s) == INSTANCE SessionLife WITH status <- LifeStatus(s), version <- version[s]

\* StreamSession.transition and attach_*: each session lives as the table has it, though
\* several usecases change it that share no lock and have each validated it before
\* their awaits.  So none of them is refused a transition in the middle of its work.
ImplementsLife ==
    /\ \A s \in Sessions : Life(s)!Init
    /\ [][ \A s \in Sessions : Life(s)!Next \/ UNCHANGED <<LifeStatus(s), version[s]>> ]_sessionVars
================================================================================
