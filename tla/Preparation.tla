------------------------------ MODULE Preparation ------------------------------
(***************************************************************************)
(* What PrepareStreamSessionUsecase asks YouTube, OBS and the program      *)
(* itself before a session is READY, and what it makes of the answers.     *)
(*                                                                         *)
(* The checks run side by side, and those of YouTube one after the other,  *)
(* so that the operator may change what the next one reads.  A check that  *)
(* raises or times out is unavailable, and does not stop the others; of    *)
(* what was read, the survey keeps what later checks or ReadinessPolicy    *)
(* depend on.                                                              *)
(***************************************************************************)
EXTENDS Naturals, Sequences

CONSTANTS
    Required,       \* the parts whose checks are required
    AllowDegraded,  \* allow_required_degraded of ReadinessPolicy
    AllowLive       \* allow_live_broadcast of the adapter

Parts == {"runtime", "youtube", "obs", "obs_avatar", "tts", "avatar", "run_of_show",
          "emergency_stop", "live_chat"}

ASSUME PreparationAssumption ==
    Required \subseteq Parts /\ AllowDegraded \in BOOLEAN /\ AllowLive \in BOOLEAN

Health == {"healthy", "degraded", "unavailable", "unknown"}

\* ReadinessPolicy.evaluate, of one check
Accepted(part, health) ==
    part \in Required =>
        health = "healthy" \/ (AllowDegraded /\ health = "degraded")

\* The survey of a preparation: whether OBS has answered, the stream that is bound
\* to the broadcast, the broadcast's status, and whether a check was not accepted.
NoSurvey == [obs |-> FALSE, bound |-> FALSE, status |-> "unknown", failed |-> FALSE]

Noted(survey, part, health) == [survey EXCEPT !.failed = @ \/ ~Accepted(part, health)]

\* _condition, and _boolean_item and _object_item of an answer
When(condition) == IF condition THEN "healthy" ELSE "unavailable"

\* _call and _single_check: whatever is asked, there may be no answer.
Call(answers) == answers \cup {"unavailable"}

-----------------------------------------------------------------------------
\* YouTube.  A broadcast is "ready" (created, ready or testing), "live" or
\* "complete"; a stream "ready" or "active", and may also be inactive or in error.

\* map_broadcast: it may be selected.
Selectable(broadcast) == broadcast = "ready" \/ (AllowLive /\ broadcast = "live")

\* resolve_broadcast: selectable, of an allowed privacy, with a stream bound to it
Resolves(broadcast) == Call(IF Selectable(broadcast) THEN {"healthy"} ELSE {})

\* check_authentication and health_check
SignsIn(survey) == {Noted(survey, "youtube", h) : h \in Call({"healthy"})}

FindsBroadcast(survey, broadcast) ==
    {Noted(survey, "youtube", h) : h \in Resolves(broadcast)}

\* resolve_bound_stream: a stream in some health, good, bad, or without data
BoundStreams(broadcast) == IF Selectable(broadcast) THEN Health ELSE {}

\* youtube.stream.health, of the same answer
Sound(health) == When(health \in {"healthy", "degraded"})

FindsStream(survey, broadcast) ==
    {Noted(survey, "youtube", "unavailable")} \cup
    {[Noted(survey, "youtube", Sound(h)) EXCEPT !.bound = TRUE] : h \in BoundStreams(broadcast)}

\* _find_owned_broadcast: it is in the list, or the list cannot be read.
Listed(broadcast) == {broadcast, "unknown"}

ReadsBroadcast(survey, broadcast) ==
    {[Noted(survey, "youtube", When(st \notin {"complete", "unknown"})) EXCEPT !.status = st] :
        st \in Listed(broadcast)}

\* A stream is active exactly when its broadcast was read to be live.
ExpectedStream(survey) == IF survey.status = "live" THEN "active" ELSE "ready"

\* get_stream_status
StreamAnswers(stream) == {stream, "inactive", "error", "unknown"}

ReadsStream(survey, stream) ==
    {Noted(survey, "youtube", When(survey.bound /\ st = ExpectedStream(survey))) :
        st \in StreamAnswers(stream)}

\* A missing Live Chat degrades the session, unless it is required.
ReadsChat(survey) ==
    LET missing == IF "live_chat" \in Required THEN "unavailable" ELSE "degraded"
    IN  {Noted(survey, "live_chat", h) : h \in Call({"healthy", missing})}

-----------------------------------------------------------------------------
\* OBS: one snapshot, or none.
Audio == {"ready", "low", "muted", "missing"}

\* _visibility: the places the avatar has in the scene, each enabled with the groups
\* it is in or not.  Of several, none can be told to be shown.
Shown(places) == Len(places) = 1 /\ places[1]

Snapshots(output) ==
    [output : {output}, versions : BOOLEAN, collection : BOOLEAN, scene : BOOLEAN,
     audio : Audio, places : UNION {[1..n -> BOOLEAN] : n \in 0..2}]

AudioHealth(audio) ==
    CASE audio \in {"muted", "missing"} -> "unavailable"
      [] audio = "low" -> "degraded"
      [] OTHER -> "healthy"

AvatarHealth(shown) ==
    IF shown THEN "healthy"
    ELSE IF "obs_avatar" \in Required THEN "unavailable" ELSE "degraded"

\* _obs_checks of a snapshot
Suits(s) ==
    /\ \A health \in {When(s.versions), When(s.output = "idle"), When(s.collection),
                      When(s.scene), AudioHealth(s.audio)} : Accepted("obs", health)
    /\ Accepted("obs_avatar", AvatarHealth(Shown(s.places)))

\* _obs_checks without one: the source of the avatar is required with the avatar.
SuitsUnread == Accepted("obs", "unavailable") /\ Accepted("avatar", "unknown")

ObsVerdicts ==
    [output \in {"idle", "starting", "active"} |->
        {SuitsUnread} \cup {Suits(s) : s \in Snapshots(output)}]

ReadsObs(survey, output) ==
    {[survey EXCEPT !.obs = TRUE, !.failed = @ \/ ~suits] : suits \in ObsVerdicts[output]}

-----------------------------------------------------------------------------
\* The program's own parts, which nothing else depends on.

\* VOICEVOX answers, has the speaker, and a player is installed.
Voice == Call({"healthy"})

\* No adapter connects to an avatar; the fake one is healthy.
Avatars == {"healthy", "degraded"}

\* Its file is there, with the fields it needs.
RunOfShow == Call({"healthy"})

\* The check of the emergency stop always answers that there is none.
OwnChecks ==
    [runtime : {"healthy"}, tts : Voice, avatar : Call(Avatars), run_of_show : RunOfShow,
     emergency_stop : {"degraded"}]

OwnVerdicts == {\A part \in DOMAIN own : Accepted(part, own[part]) : own \in OwnChecks}

ReadsOwn(survey) == {[survey EXCEPT !.failed = @ \/ ~suits] : suits \in OwnVerdicts}

\* The decision that the session's next status is made of.
Ready(survey) == ~survey.failed
================================================================================
