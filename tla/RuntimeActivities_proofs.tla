----------------------- MODULE RuntimeActivities_proofs -----------------------
(***************************************************************************)
(* Theorems about RuntimeActivities, for any cast of Activities and any    *)
(* queue size.                                                             *)
(*                                                                         *)
(* The lemmas come in three groups: what an operation of the manager       *)
(* leaves alone, what the two waiting lists keep when an element leaves    *)
(* them, and, action by action, the inductive invariant IInv.  It ties the *)
(* phase of every Activity to who holds it at the moment, so that no two   *)
(* threads run one Activity.  The last section has an invariant of its own *)
(* for sessions with one USER_TEXT: whoever has the floor as a             *)
(* conversation is on its way to an answer.                                *)
(***************************************************************************)
EXTENDS RuntimeActivities, ActivityManager_proofs

\* The phases tell which Activities the manager knows.
Known ==
    \A a \in Activity : /\ phase[a] = "new" => mgr.status[a] = "ABSENT"
                        /\ phase[a] \in Running => mgr.status[a] # "ABSENT"

\* Talk between its conception and the queue is in the planner's hands.
Talk ==
    /\ planner.gen <= generation
    /\ planner.pc \in {"put", "withdraw"} =>
          /\ planner.act \in Autonomous
          /\ phase[planner.act] = "enriching"
          /\ conceived[planner.act] = planner.gen
    /\ planner.pc = "withdraw" => planner.gen # generation

\* A USER_TEXT being accepted is in publish_events' hands.
Accepting ==
    publisher.pc # "idle" => publisher.text \in UserTexts /\ phase[publisher.text] = "accepted"

\* With the phases ph the elements of s are different Activities in phase p.
Held(ph, s, p) ==
    /\ \A i \in DOMAIN s : ph[s[i]] = p
    /\ \A i, j \in DOMAIN s : s[i] = s[j] => i = j

Gate ==
    /\ Held(phase, gate.waiting, "waiting")
    /\ gate.active # NoActivity => phase[gate.active] = "speaking"

\* Once the deferred talk is discarded, what is deferred again is being withdrawn.
BeingWithdrawn(a) ==
    planner.pc \in {"put", "withdraw"} /\ planner.act = a /\ planner.gen # generation
Cleared ==
    publisher.pc \in {"queue", "removed"} => \A a \in Deferred(mgr) : BeingWithdrawn(a)

\* While publish_events cancels, nobody takes a floor the planner found empty.
FloorStaysEmpty ==
    (/\ publisher.pc \in {"deferred", "queue", "removed"}
     /\ planner.pc \in {"pending", "create"}
     /\ planner.gen = generation) => mgr.foreground = NoActivity

Types ==
    /\ Good(mgr)
    /\ phase \in [Activity -> Phases]
    /\ planned \in Seq(Autonomous)
    /\ generation \in Nat
    /\ conceived \in [Activity -> Nat]
    /\ planner \in [pc : PlannerSteps, act : Autonomous \cup {NoActivity}, gen : Nat]
    /\ publisher \in [pc : PublisherSteps, text : UserTexts \cup {NoActivity},
                      removed : Seq(Autonomous)]
    /\ gate \in [active : Activity \cup {NoActivity}, waiting : Seq(Activity)]

IInv ==
    /\ Types /\ Known /\ Talk /\ Accepting /\ Held(phase, planned, "planned") /\ Gate
    /\ Cleared /\ FloorStaysEmpty /\ QueuedTalkIsFresh

-----------------------------------------------------------------------------
\* What an operation of the manager leaves alone

\* From m to n no Activity enters, none is deferred that was not, and nobody
\* takes an empty floor.
Calm(m, n) ==
    /\ Good(n)
    /\ \A b \in Activity : n.status[b] = "ABSENT" <=> m.status[b] = "ABSENT"
    /\ Deferred(n) \subseteq Deferred(m)
    /\ m.foreground = NoActivity => n.foreground = NoActivity

LEMMA CancelIsCalm ==
  ASSUME NEW m, Good(m), NEW a \in Activity
  PROVE  Calm(m, Cancel(m, a))
<1>1. CASE m.status[a] \in Terminal \cup {"ABSENT"}
  BY <1>1 DEF Cancel, Calm
<1>2. CASE m.status[a] \notin Terminal \cup {"ABSENT"}
  <2>1. Good(Cancel(m, a)) BY CancelIsGood
  <2>2. Cancel(m, a) = m \/ Cancels(m, Cancel(m, a), a) BY CancelEffect
  <2> QED BY <1>2, <2>1, <2>2 DEF Cancels, Calm, Deferred
<1> QED BY <1>1, <1>2

LEMMA DiscardIsCalm ==
  ASSUME NEW m, Good(m)
  PROVE  Calm(m, DiscardDeferred(m)) /\ Deferred(DiscardDeferred(m)) = {}
<1> DEFINE n == DiscardDeferred(m)
<1>1. Good(n) /\ Discards(m, n) BY DiscardDeferredIsGood, DiscardEffect
<1> HIDE DEF n
<1>2. Deferred(n) = {} BY <1>1 DEF Discards, Deferred
<1>3. Calm(m, n) BY <1>1, <1>2 DEF Discards, Calm, Deferred
<1> QED BY <1>2, <1>3 DEF n

LEMMA FinishIsCalm ==
  ASSUME NEW m, Good(m), NEW a \in Activity, m.status[a] # "ABSENT",
         NEW n \in CompleteProcessed(m, a)
  PROVE  Calm(m, n)
<1>1. Good(n) BY CompleteProcessedIsGood
<1>2. PICK r \in Activity \cup {NoActivity} : Completes(m, n, a, r) BY FinishEffect
<1>3. \A b \in Activity : n.status[b] = "ABSENT" <=> m.status[b] = "ABSENT"
  BY <1>2, NoActivityAssumption DEF Completes, Deferred
<1>4. Deferred(n) \subseteq Deferred(m)
  BY <1>2, NoActivityAssumption DEF Completes, Deferred
<1>5. m.foreground = NoActivity => n.foreground = NoActivity
  BY <1>2, NoActivityAssumption DEF Completes
<1> QED BY <1>1, <1>3, <1>4, <1>5 DEF Calm

\* a is handled: it is known afterwards, and of the others only who had the floor
\* may have changed.
Admits(m, n, a) ==
    /\ Good(n)
    /\ n.status[a] # "ABSENT"
    /\ \A b \in Activity : b # a => (n.status[b] = "ABSENT" <=> m.status[b] = "ABSENT")

LEMMA ResolveAdmits ==
  ASSUME NEW m, Good(m), NEW a \in Activity, m.status[a] = "ABSENT"
  PROVE  Admits(m, Resolve(m, a), a)
  BY ResolveIsGood, ResolveEffect DEF Enters, TakesOver, Admits

LEMMA HandleAdmits ==
  ASSUME NEW m, Good(m), NEW a \in Activity
  PROVE  Admits(m, HandleEvent(m, a), a)
<1>1. CASE m.status[a] = "ABSENT" BY <1>1, ResolveAdmits DEF HandleEvent
<1>2. CASE m.status[a] # "ABSENT" BY <1>2 DEF HandleEvent, Admits
<1> QED BY <1>1, <1>2

\* New talk sets no other talk aside, and on an empty floor it is not deferred itself.
LEMMA TalkEnters ==
  ASSUME NEW m, Good(m), NEW a \in Autonomous, m.status[a] = "ABSENT"
  PROVE  /\ Deferred(HandleEvent(m, a)) \subseteq Deferred(m) \cup {a}
         /\ m.foreground = NoActivity => a \notin Deferred(HandleEvent(m, a))
<1> DEFINE n == HandleEvent(m, a)
<1>1. a \in Activity /\ kindOf[a] = "autonomous" BY DEF Autonomous
<1>2. n = Resolve(m, a) BY DEF HandleEvent
<1>3. Enters(m, n, a) \/ TakesOver(m, n, a) BY <1>1, <1>2, ResolveEffect
<1> HIDE DEF n
<1> DEFINE P == /\ Deferred(n) \subseteq Deferred(m) \cup {a}
                /\ m.foreground = NoActivity => a \notin Deferred(n)
<1>4. ASSUME Enters(m, n, a) PROVE P
  BY <1>4 DEF Enters, Deferred
<1>5. ASSUME TakesOver(m, n, a) PROVE P
  <2>1. kindOf[m.foreground] # "autonomous"
    <3>1. Priority(a) = 65 BY <1>1 DEF Priority
    <3> QED BY <1>5, <3>1 DEF TakesOver, Priority
  <2> QED BY <1>1, <1>5, <2>1, NoActivityAssumption DEF TakesOver, Deferred
<1> QED BY <1>3, <1>4, <1>5 DEF n

LEMMA PrepareLeavesOthers ==
  ASSUME NEW m, Good(m), NEW a \in Activity, kindOf[a] = "conversation"
  PROVE  LET n == PrepareUserInput(m, a) IN
         /\ Good(n)
         /\ \A b \in Activity : b # a => (n.status[b] = "ABSENT" <=> m.status[b] = "ABSENT")
  BY PrepareUserInputIsGood, PrepareEffect DEF TakesOver

-----------------------------------------------------------------------------
\* Who waits

\* An Activity that is not in s may go to any phase.
LEMMA StillHeld ==
  ASSUME NEW ph \in [Activity -> Phases], NEW s \in Seq(Activity), NEW p, Held(ph, s, p),
         NEW a \in Activity, ph[a] # p, NEW q
  PROVE  Held([ph EXCEPT ![a] = q], s, p)
  BY DEF Held

\* One that comes to s must be in the phase of s.
LEMMA HeldWithOneMore ==
  ASSUME NEW ph \in [Activity -> Phases], NEW s \in Seq(Activity), NEW p \in Phases,
         Held(ph, s, p), NEW a \in Activity, ph[a] # p
  PROVE  /\ Held([ph EXCEPT ![a] = p], Append(s, a), p)
         /\ Held([ph EXCEPT ![a] = p], <<a>> \o s, p)
<1> DEFINE qh == [ph EXCEPT ![a] = p]
<1>1. \A i \in DOMAIN s : s[i] # a BY DEF Held
<1>2. Held(qh, Append(s, a), p)
  <2>1. \A i \in DOMAIN Append(s, a) : Append(s, a)[i] = IF i <= Len(s) THEN s[i] ELSE a
    OBVIOUS
  <2> QED BY <1>1, <2>1 DEF Held
<1>3. Held(qh, <<a>> \o s, p)
  <2>1. <<a>> \o s \in Seq(Activity) /\ Len(<<a>> \o s) = Len(s) + 1
    OBVIOUS
  <2>2. \A i \in 1 .. Len(s) + 1 : (<<a>> \o s)[i] = IF i = 1 THEN a ELSE s[i - 1]
    OBVIOUS
  <2>3. \A i \in 2 .. Len(s) + 1 : i - 1 \in DOMAIN s
    OBVIOUS
  <2> QED BY <1>1, <2>1, <2>2, <2>3 DEF Held
<1> QED BY <1>2, <1>3

\* What is left of s without its i-th element, each with its place in s.
LEMMA Removed ==
  ASSUME NEW T, NEW s \in Seq(T), NEW i \in DOMAIN s
  PROVE  /\ RemoveAt(s, i) \in Seq(T)
         /\ Len(RemoveAt(s, i)) = Len(s) - 1
         /\ \A j \in DOMAIN RemoveAt(s, i) :
               RemoveAt(s, i)[j] = IF j < i THEN s[j] ELSE s[j + 1]
<1> DEFINE l == SubSeq(s, 1, i - 1)
           r == SubSeq(s, i + 1, Len(s))
<1>1. i \in 1 .. Len(s) /\ Len(s) \in Nat OBVIOUS
<1>2. l \in Seq(T) /\ Len(l) = i - 1 /\ \A j \in 1 .. i - 1 : l[j] = s[j]
  BY <1>1
<1>3. r \in Seq(T) /\ Len(r) = Len(s) - i /\ \A j \in 1 .. Len(s) - i : r[j] = s[i + j]
  BY <1>1
<1>4. RemoveAt(s, i) = l \o r BY DEF RemoveAt
<1> HIDE DEF l, r
<1>5. l \o r \in Seq(T) /\ Len(l \o r) = Len(s) - 1
  BY <1>1, <1>2, <1>3
<1>6. ASSUME NEW j \in 1 .. Len(s) - 1
      PROVE  (l \o r)[j] = IF j < i THEN s[j] ELSE s[j + 1]
  <2>1. (l \o r)[j] = IF j <= Len(l) THEN l[j] ELSE r[j - Len(l)]
    BY <1>1, <1>2, <1>3
  <2>2. CASE j < i BY <1>1, <1>2, <2>1, <2>2
  <2>3. CASE ~(j < i)
    <3> DEFINE k == j - (i - 1)
    <3>1. k \in 1 .. Len(s) - i /\ i + k = j + 1 BY <1>1, <2>3
    <3>2. (l \o r)[j] = r[k] BY <1>1, <1>2, <2>1, <2>3
    <3>3. r[k] = s[i + k] BY <1>3, <3>1
    <3> QED BY <2>3, <3>1, <3>2, <3>3
  <2> QED BY <2>2, <2>3
<1>7. DOMAIN (l \o r) = 1 .. Len(s) - 1 BY <1>5
<1> QED BY <1>4, <1>5, <1>6, <1>7

\* One that leaves s may go to any phase.
LEMMA HeldWithoutOne ==
  ASSUME NEW ph \in [Activity -> Phases], NEW s \in Seq(Activity), NEW p, Held(ph, s, p),
         NEW i \in DOMAIN s, NEW q
  PROVE  Held([ph EXCEPT ![s[i]] = q], RemoveAt(s, i), p)
<1> DEFINE t == RemoveAt(s, i)
           at(j) == IF j < i THEN j ELSE j + 1
<1>1. DOMAIN t = 1 .. Len(s) - 1 /\ \A j \in DOMAIN t : t[j] = s[at(j)]
  BY Removed
<1>2. \A j \in DOMAIN t : at(j) \in DOMAIN s /\ at(j) # i
  BY <1>1
<1>3. \A j, k \in DOMAIN t : at(j) = at(k) => j = k
  BY <1>1
<1> HIDE DEF t, at
<1>4. \A j \in DOMAIN t : t[j] # s[i] /\ t[j] \in Activity /\ ph[t[j]] = p
  BY <1>1, <1>2 DEF Held
<1>5. \A j, k \in DOMAIN t : t[j] = t[k] => j = k
  BY <1>1, <1>2, <1>3 DEF Held
<1>6. Held([ph EXCEPT ![s[i]] = q], t, p)
  BY <1>4, <1>5 DEF Held
<1> QED BY <1>6 DEF t

LEMMA HeldTail ==
  ASSUME NEW ph \in [Activity -> Phases], NEW s \in Seq(Activity), NEW p, Held(ph, s, p),
         s # <<>>, NEW q
  PROVE  Held([ph EXCEPT ![Head(s)] = q], Tail(s), p)
<1>1. DOMAIN Tail(s) = 1 .. Len(s) - 1 /\ \A j \in DOMAIN Tail(s) : Tail(s)[j] = s[j + 1]
  OBVIOUS
<1>2. Head(s) = s[1] /\ 1 \in DOMAIN s /\ \A j \in DOMAIN Tail(s) : j + 1 \in DOMAIN s /\ j + 1 # 1
  BY <1>1
<1> QED BY <1>1, <1>2 DEF Held

-----------------------------------------------------------------------------
\* The inductive invariant, one group of actions after the other

LEMMA KindsApart ==
  /\ Autonomous \subseteq Activity /\ LoopRuns \subseteq Activity
  /\ UserTexts \subseteq LoopRuns /\ Startups \subseteq LoopRuns
  /\ Explicits \subseteq Activity /\ Autonomous \cap (LoopRuns \cup Explicits) = {}
  /\ NoActivity \notin Activity
  BY NoActivityAssumption DEF Autonomous, LoopRuns, UserTexts, Startups, Explicits

LEMMA InitIsGood == Init => IInv
<1> SUFFICES ASSUME Init PROVE IInv
  OBVIOUS
<1>1. Types
  BY EmptyIsGood, KindsApart DEF Init, Types, Phases, PlannerSteps, PublisherSteps
<1>2. Known
  BY DEF Init, Known, EmptyManager, Running
<1>3. Talk /\ Accepting /\ Cleared /\ FloorStaysEmpty
  BY DEF Init, Talk, Accepting, Cleared, FloorStaysEmpty
<1>4. Held(phase, planned, "planned") /\ Gate /\ QueuedTalkIsFresh
  BY DEF Init, Held, Gate, QueuedTalkIsFresh
<1> QED BY <1>1, <1>2, <1>3, <1>4 DEF IInv

\* An Activity under way goes on: its phase, the gate and the manager change, and
\* nothing its runner does makes any Activity deferred or takes an empty floor.
LEMMA RunKeeps ==
  ASSUME IInv, NEW a \in Activity, NEW q \in Running \cup {"done", "dropped"},
         phase[a] \in Running \cup {"fetched"}, SetPhase(a, q), Calm(mgr, mgr'),
         q \in Running => mgr.status[a] # "ABSENT",
         gate' \in [active : Activity \cup {NoActivity}, waiting : Seq(Activity)], Gate',
         UNCHANGED <<planned, generation, conceived, planner, publisher>>
  PROVE  IInv'
<1>1. phase' = [phase EXCEPT ![a] = q] /\ phase \in [Activity -> Phases]
  BY DEF SetPhase, IInv, Types
<1>2. Types'
  BY <1>1 DEF IInv, Types, Calm, Phases
<1>3. Known'
  BY <1>1 DEF IInv, Known, Calm, Running
<1>4. Talk' /\ Accepting'
  BY <1>1, KindsApart DEF IInv, Talk, Accepting, Running
<1>5. Held(phase', planned', "planned")
  <2>1. planned \in Seq(Activity) BY KindsApart DEF IInv, Types
  <2> QED BY <1>1, <2>1, StillHeld DEF IInv, Running
<1>6. Cleared' /\ FloorStaysEmpty' /\ QueuedTalkIsFresh'
  BY DEF IInv, Calm, Cleared, BeingWithdrawn, FloorStaysEmpty, QueuedTalkIsFresh
<1> QED BY <1>2, <1>3, <1>4, <1>5, <1>6 DEF IInv

\* Who is neither waiting nor speaking leaves the gate as it is.
LEMMA GateStays ==
  ASSUME IInv, NEW a \in Activity, NEW q, phase[a] \notin {"waiting", "speaking"},
         SetPhase(a, q), UNCHANGED gate
  PROVE  Gate'
<1>1. Held(phase', gate.waiting, "waiting")
  BY StillHeld DEF IInv, Types, Gate, SetPhase
<1> QED BY <1>1 DEF IInv, Types, Gate, SetPhase

LEMMA CalmStays == IInv => Calm(mgr, mgr)
  BY DEF IInv, Types, Calm

LEMMA PlanReturnsKeeps ==
  ASSUME IInv, NEW a \in Activity, PlanReturns(a) PROVE IInv'
<1>1. phase[a] = "planning" /\ mgr.status[a] # "ABSENT" /\ mgr' = mgr
  BY DEF PlanReturns, IInv, Known, Running
<1>2. CASE SetPhase(a, "waiting") /\ gate' = [gate EXCEPT !.waiting = Append(gate.waiting, a)]
  <2>0. gate.waiting \in Seq(Activity) /\ Append(gate.waiting, a) \in Seq(Activity)
    BY DEF IInv, Types
  <2>1. gate'.active = gate.active /\ gate'.waiting = Append(gate.waiting, a)
        /\ gate' \in [active : Activity \cup {NoActivity}, waiting : Seq(Activity)]
    BY <1>2, <2>0 DEF IInv, Types
  <2>2. Held(phase', gate'.waiting, "waiting")
    BY <1>1, <1>2, <2>1, HeldWithOneMore DEF IInv, Types, Gate, SetPhase, Phases, Running
  <2>3. Gate'
    BY <1>1, <1>2, <2>1, <2>2 DEF IInv, Types, Gate, SetPhase
  <2> QED
    BY <1>1, <1>2, <2>1, <2>3, CalmStays, RunKeeps DEF PlanReturns, Running
<1>3. CASE SetPhase(a, "dropped") /\ UNCHANGED gate
  <2>1. Gate' BY <1>1, <1>3, GateStays
  <2>2. gate' \in [active : Activity \cup {NoActivity}, waiting : Seq(Activity)]
    BY <1>3 DEF IInv, Types
  <2> QED BY <1>1, <1>3, <2>1, <2>2, CalmStays, RunKeeps DEF PlanReturns, Running
<1> QED BY <1>2, <1>3 DEF PlanReturns

LEMMA RunEndsKeeps ==
  ASSUME IInv, NEW a \in Activity, PlanRaises(a) \/ CompleteRun(a) PROVE IInv'
<1>1. phase[a] \in {"planning", "spoken"} /\ mgr.status[a] # "ABSENT"
  BY DEF PlanRaises, CompleteRun, IInv, Known, Running
<1>2. Calm(mgr, mgr')
  BY <1>1, FinishIsCalm DEF PlanRaises, CompleteRun, IInv, Types
<1>3. SetPhase(a, "done") /\ UNCHANGED gate
  BY DEF PlanRaises, CompleteRun
<1>4. Gate' BY <1>1, <1>3, GateStays
<1>5. gate' \in [active : Activity \cup {NoActivity}, waiting : Seq(Activity)]
  BY <1>3 DEF IInv, Types
<1> QED BY <1>1, <1>2, <1>3, <1>4, <1>5, RunKeeps DEF PlanRaises, CompleteRun, Running

LEMMA StartOutputKeeps ==
  ASSUME IInv, NEW a \in Activity, StartOutput(a) PROVE IInv'
<1>1. PICK i \in DOMAIN gate.waiting :
         gate.waiting[i] = a /\ gate' = [active |-> a, waiting |-> RemoveAt(gate.waiting, i)]
  BY DEF StartOutput
<1>2. gate.waiting \in Seq(Activity) /\ phase \in [Activity -> Phases]
  BY DEF IInv, Types
<1>3. phase[a] = "waiting" /\ mgr.status[a] # "ABSENT"
  BY <1>1 DEF IInv, Gate, Held, Known, Running
<1>4. gate' \in [active : Activity \cup {NoActivity}, waiting : Seq(Activity)]
  BY <1>1, <1>2, Removed
<1>5. Held(phase', gate'.waiting, "waiting")
  BY <1>1, <1>2, HeldWithoutOne DEF IInv, Gate, StartOutput, SetPhase
<1>6. Gate'
  BY <1>1, <1>2, <1>5 DEF Gate, StartOutput, SetPhase
<1> QED BY <1>3, <1>4, <1>6, CalmStays, RunKeeps DEF StartOutput, Running

LEMMA FinishOutputKeeps ==
  ASSUME IInv, NEW a \in Activity, FinishOutput(a) PROVE IInv'
<1>1. phase[a] = "speaking" /\ mgr.status[a] # "ABSENT"
  BY KindsApart DEF FinishOutput, IInv, Gate, Known, Running
<1>2. gate'.active = NoActivity /\ gate'.waiting = gate.waiting
      /\ gate' \in [active : Activity \cup {NoActivity}, waiting : Seq(Activity)]
  BY DEF FinishOutput, IInv, Types
<1>3. Held(phase', gate'.waiting, "waiting")
  BY <1>1, <1>2, StillHeld DEF FinishOutput, SetPhase, IInv, Types, Gate
<1>4. Gate' BY <1>2, <1>3 DEF Gate
<1> QED BY <1>1, <1>2, <1>4, CalmStays, RunKeeps DEF FinishOutput, Running

LEMMA ExecutorChecksKeeps ==
  ASSUME IInv, NEW a \in Activity, ExecutorChecks(a) PROVE IInv'
<1> DEFINE q == IF mgr.status[a] = "ACTIVE" THEN "planning" ELSE "dropped"
<1>1. q \in Running \cup {"done", "dropped"} /\ (q \in Running => mgr.status[a] # "ABSENT")
  BY DEF Running
<1>2. SetPhase(a, q) /\ UNCHANGED gate /\ phase[a] = "fetched"
  BY DEF ExecutorChecks
<1> HIDE DEF q
<1>3. Gate' BY <1>2, GateStays
<1>4. gate' \in [active : Activity \cup {NoActivity}, waiting : Seq(Activity)]
  BY <1>2 DEF IInv, Types
<1> QED BY <1>1, <1>2, <1>3, <1>4, CalmStays, RunKeeps DEF ExecutorChecks

\* Between two steps of publish_events an Activity of the asyncio thread gets on
\* without being in the gate.
LEMMA LoopKeeps ==
  ASSUME IInv, NEW a \in LoopRuns \cup Explicits, NEW q \in {"queued", "planning"},
         publisher.pc = "idle", phase[a] \notin {"waiting", "speaking"}, SetPhase(a, q), Good(mgr'),
         \A b \in Activity : b # a => (mgr'.status[b] = "ABSENT" <=> mgr.status[b] = "ABSENT"),
         q = "planning" => mgr'.status[a] # "ABSENT",
         UNCHANGED <<planned, generation, conceived, planner, publisher, gate>>
  PROVE  IInv'
<1>0. a \in Activity /\ a \notin Autonomous
  BY KindsApart
<1>1. phase' = [phase EXCEPT ![a] = q] /\ phase \in [Activity -> Phases]
  BY DEF SetPhase, IInv, Types
<1>2. Types'
  BY <1>1 DEF IInv, Types, Phases, Running
<1>3. Known'
  BY <1>0, <1>1 DEF IInv, Known, Running
<1>4. Talk' /\ Accepting'
  BY <1>0, <1>1, KindsApart DEF IInv, Talk, Accepting
<1>5. Held(phase', planned', "planned")
  <2>1. \A i \in DOMAIN planned : planned[i] \in Activity /\ planned[i] # a
    BY <1>0, KindsApart DEF IInv, Types
  <2> QED BY <1>1, <2>1 DEF IInv, Held
<1>6. Gate'
  BY <1>0, GateStays
<1>7. Cleared' /\ FloorStaysEmpty' /\ QueuedTalkIsFresh'
  BY DEF IInv, Cleared, FloorStaysEmpty, QueuedTalkIsFresh
<1> QED BY <1>2, <1>3, <1>4, <1>5, <1>6, <1>7 DEF IInv

LEMMA TakeEventKeeps ==
  ASSUME IInv, NEW e \in LoopRuns, TakeEvent(e) PROVE IInv'
<1>1. e \in Activity /\ kindOf[e] # "autonomous"
  BY DEF LoopRuns, UserTexts, Startups
<1>2. publisher.pc = "idle" /\ phase[e] \notin Running
  BY <1>1 DEF TakeEvent, LoopThreadFree, LoopIdle
<1>3. Admits(mgr, mgr', e)
  BY <1>1, HandleAdmits DEF TakeEvent, IInv, Types
<1> QED BY <1>2, <1>3, LoopKeeps DEF TakeEvent, Admits, Running

LEMMA StartExplicitKeeps ==
  ASSUME IInv, NEW x \in Explicits, StartExplicit(x) PROVE IInv'
<1>1. x \in Activity /\ kindOf[x] # "autonomous"
  BY DEF Explicits
<1>2. publisher.pc = "idle" /\ mgr.status[x] = "ABSENT"
  BY <1>1 DEF StartExplicit, LoopThreadFree, IInv, Known
<1>3. Admits(mgr, mgr', x)
  BY <1>1, <1>2, ResolveAdmits DEF StartExplicit, IInv, Types
<1> QED BY <1>2, <1>3, LoopKeeps DEF StartExplicit, Admits

LEMMA PublishStartupKeeps ==
  ASSUME IInv, NEW s \in Startups, PublishStartup(s) PROVE IInv'
<1>1. s \in LoopRuns /\ Good(mgr')
  BY KindsApart DEF PublishStartup, IInv, Types
<1> QED BY <1>1, LoopKeeps DEF PublishStartup

-----------------------------------------------------------------------------
\* publish_events

LEMMA PublishKeeps ==
  ASSUME IInv, NEW u \in UserTexts, Publish(u) PROVE IInv'
<1>0. u \in Activity /\ u \notin Autonomous /\ kindOf[u] = "conversation"
  BY KindsApart DEF UserTexts
<1>1. phase' = [phase EXCEPT ![u] = "accepted"] /\ phase \in [Activity -> Phases] /\ phase[u] = "new"
  BY DEF Publish, SetPhase, IInv, Types
<1>2. publisher'.pc = "inflight" /\ publisher'.text = u
      /\ publisher' \in [pc : PublisherSteps, text : UserTexts \cup {NoActivity},
                         removed : Seq(Autonomous)]
  BY DEF Publish, IInv, Types, PublisherSteps
<1>3. Good(mgr') /\ \A b \in Activity : b # u =>
         (mgr'.status[b] = "ABSENT" <=> mgr.status[b] = "ABSENT")
  BY <1>0, PrepareLeavesOthers DEF Publish, IInv, Types
<1>4. Types'
  BY <1>0, <1>1, <1>2, <1>3 DEF Publish, IInv, Types, Phases
<1>5. Known'
  BY <1>0, <1>1, <1>3 DEF IInv, Known, Running
<1>6. Talk' /\ Accepting'
  BY <1>0, <1>1, <1>2, KindsApart DEF Publish, IInv, Talk, Accepting
<1>7. Held(phase', planned', "planned")
  <2>1. planned \in Seq(Activity) /\ planned' = planned
    BY KindsApart DEF Publish, IInv, Types
  <2> QED BY <1>0, <1>1, <2>1, StillHeld DEF IInv
<1>8. Gate'
  BY <1>0, <1>1, GateStays DEF Publish
<1>9. Cleared' /\ FloorStaysEmpty' /\ QueuedTalkIsFresh'
  <2>1. publisher.pc = "idle" /\ UNCHANGED <<planned, conceived, generation>> BY DEF Publish
  <2> QED BY <1>2, <2>1 DEF IInv, Cleared, FloorStaysEmpty, QueuedTalkIsFresh
<1> QED BY <1>4, <1>5, <1>6, <1>7, <1>8, <1>9 DEF IInv

LEMMA CancelInflightKeeps ==
  ASSUME IInv, CancelInflight PROVE IInv'
<1>1. publisher'.pc = "deferred" /\ publisher'.text = publisher.text
      /\ publisher' \in [pc : PublisherSteps, text : UserTexts \cup {NoActivity},
                         removed : Seq(Autonomous)]
  BY DEF CancelInflight, IInv, Types, PublisherSteps
<1>2. generation' = generation + 1 /\ generation \in Nat /\ planner.gen \in Nat
      /\ planner.gen <= generation
  BY DEF CancelInflight, IInv, Types, Talk
<1>3. Types' BY <1>1, <1>2 DEF CancelInflight, IInv, Types
<1>4. Known' BY DEF CancelInflight, IInv, Known
<1>5. Talk' BY <1>2 DEF CancelInflight, IInv, Talk
<1>6. Accepting' BY <1>1 DEF CancelInflight, IInv, Accepting
<1>7. Held(phase', planned', "planned") /\ Gate' BY DEF CancelInflight, IInv, Gate
<1>8. Cleared' /\ FloorStaysEmpty' /\ QueuedTalkIsFresh'
  <2>1. planner' = planner /\ planner.gen # generation' BY <1>2 DEF CancelInflight
  <2> QED BY <1>1, <2>1 DEF Cleared, FloorStaysEmpty, QueuedTalkIsFresh
<1> QED BY <1>3, <1>4, <1>5, <1>6, <1>7, <1>8 DEF IInv

LEMMA CancelDeferredKeeps ==
  ASSUME IInv, CancelDeferred PROVE IInv'
<1>1. publisher'.pc = "queue" /\ publisher'.text = publisher.text
      /\ publisher' \in [pc : PublisherSteps, text : UserTexts \cup {NoActivity},
                         removed : Seq(Autonomous)]
  BY DEF CancelDeferred, IInv, Types, PublisherSteps
<1>2. Calm(mgr, mgr') /\ Deferred(mgr') = {}
  BY DiscardIsCalm DEF CancelDeferred, IInv, Types
<1>3. Types' BY <1>1, <1>2 DEF CancelDeferred, IInv, Types, Calm
<1>4. Known' BY <1>2 DEF CancelDeferred, IInv, Known, Calm
<1>5. Talk' /\ Accepting' BY <1>1 DEF CancelDeferred, IInv, Talk, Accepting
<1>6. Held(phase', planned', "planned") /\ Gate' BY DEF CancelDeferred, IInv, Gate
<1>7. Cleared' BY <1>2 DEF Cleared
<1>8. FloorStaysEmpty' /\ QueuedTalkIsFresh'
  BY <1>1, <1>2 DEF CancelDeferred, IInv, FloorStaysEmpty, QueuedTalkIsFresh, Calm
<1> QED BY <1>3, <1>4, <1>5, <1>6, <1>7, <1>8 DEF IInv

LEMMA RemoveQueuedKeeps ==
  ASSUME IInv, RemoveQueued PROVE IInv'
<1>1. publisher'.pc = "removed" /\ publisher'.text = publisher.text /\ publisher.pc = "queue"
      /\ publisher' \in [pc : PublisherSteps, text : UserTexts \cup {NoActivity},
                         removed : Seq(Autonomous)]
  BY DEF RemoveQueued, IInv, Types, PublisherSteps
<1>2. phase' \in [Activity -> Phases] /\ \A a \in Activity :
         phase'[a] = IF phase[a] = "planned" THEN "dropped" ELSE phase[a]
  BY DEF RemoveQueued, IInv, Types, Phases
<1>3. planned' = <<>> BY DEF RemoveQueued
<1>4. Types' BY <1>1, <1>2, <1>3 DEF RemoveQueued, IInv, Types
<1>5. Known' BY <1>2 DEF RemoveQueued, IInv, Known, Running
<1>6. Talk' /\ Accepting'
  BY <1>1, <1>2, KindsApart DEF RemoveQueued, IInv, Talk, Accepting
<1>7. Held(phase', planned', "planned") /\ QueuedTalkIsFresh'
  BY <1>3 DEF Held, QueuedTalkIsFresh
<1>8. Gate'
  <2>1. gate.waiting \in Seq(Activity) /\ gate.active \in Activity \cup {NoActivity} /\ gate' = gate
    BY DEF RemoveQueued, IInv, Types
  <2>2. Held(phase', gate.waiting, "waiting") BY <1>2, <2>1 DEF IInv, Gate, Held
  <2> QED BY <1>2, <2>1, <2>2 DEF IInv, Gate
<1>9. Cleared' /\ FloorStaysEmpty'
  BY <1>1 DEF RemoveQueued, IInv, Cleared, BeingWithdrawn, FloorStaysEmpty
<1> QED BY <1>4, <1>5, <1>6, <1>7, <1>8, <1>9 DEF IInv

LEMMA CancelRemovedKeeps ==
  ASSUME IInv, CancelRemoved
  PROVE  IInv' /\ Head(publisher.removed) \in Autonomous
<1>1. publisher.removed \in Seq(Autonomous) /\ publisher.removed # <<>>
      /\ publisher.pc = "removed"
  BY DEF CancelRemoved, IInv, Types
<1>2. Head(publisher.removed) \in Autonomous /\ Tail(publisher.removed) \in Seq(Autonomous)
  BY <1>1
<1>3. publisher'.pc = "removed" /\ publisher'.text = publisher.text
      /\ publisher' \in [pc : PublisherSteps, text : UserTexts \cup {NoActivity},
                         removed : Seq(Autonomous)]
  BY <1>1, <1>2 DEF CancelRemoved, IInv, Types
<1>4. Calm(mgr, mgr')
  BY <1>2, KindsApart, CancelIsCalm DEF CancelRemoved, IInv, Types
<1>5. Types' BY <1>3, <1>4 DEF CancelRemoved, IInv, Types, Calm
<1>6. Known' BY <1>4 DEF CancelRemoved, IInv, Known, Calm
<1>7. Talk' /\ Accepting' BY <1>1, <1>3 DEF CancelRemoved, IInv, Talk, Accepting
<1>8. Held(phase', planned', "planned") /\ Gate' BY DEF CancelRemoved, IInv, Gate
<1>9. Cleared' /\ FloorStaysEmpty' /\ QueuedTalkIsFresh'
  BY <1>1, <1>3, <1>4
  DEF CancelRemoved, IInv, Cleared, BeingWithdrawn, FloorStaysEmpty, QueuedTalkIsFresh, Calm
<1> QED BY <1>2, <1>5, <1>6, <1>7, <1>8, <1>9 DEF IInv

LEMMA EnqueueTextKeeps ==
  ASSUME IInv, EnqueueText PROVE IInv'
<1> DEFINE u == publisher.text
<1>1. u \in Activity /\ u \notin Autonomous /\ phase[u] = "accepted"
  BY KindsApart DEF EnqueueText, IInv, Accepting
<1>2. publisher'.pc = "idle" /\ publisher.pc = "removed"
      /\ publisher' \in [pc : PublisherSteps, text : UserTexts \cup {NoActivity},
                         removed : Seq(Autonomous)]
  BY DEF EnqueueText, IInv, Types, PublisherSteps
<1>3. phase' = [phase EXCEPT ![u] = "queued"] /\ phase \in [Activity -> Phases]
  BY DEF EnqueueText, SetPhase, IInv, Types
<1> HIDE DEF u
<1>4. Types' BY <1>2, <1>3 DEF EnqueueText, IInv, Types, Phases
<1>5. Known' BY <1>1, <1>3 DEF EnqueueText, IInv, Known, Running
<1>6. Talk' /\ Accepting'
  BY <1>1, <1>2, <1>3, KindsApart DEF EnqueueText, IInv, Talk, Accepting
<1>7. Held(phase', planned', "planned")
  <2>1. planned \in Seq(Activity) /\ planned' = planned
    BY KindsApart DEF EnqueueText, IInv, Types
  <2> QED BY <1>1, <1>3, <2>1, StillHeld DEF IInv
<1>8. Gate' BY <1>1, GateStays DEF EnqueueText, u
<1>9. Cleared' /\ FloorStaysEmpty' /\ QueuedTalkIsFresh'
  BY <1>2 DEF EnqueueText, IInv, Cleared, FloorStaysEmpty, QueuedTalkIsFresh
<1> QED BY <1>4, <1>5, <1>6, <1>7, <1>8, <1>9 DEF IInv

-----------------------------------------------------------------------------
\* ActivityPlannerThread and ActivityExecutorThread

LEMMA CancelEndsDeferral ==
  ASSUME NEW m, Good(m), NEW a \in Activity
  PROVE  a \notin Deferred(Cancel(m, a))
<1>1. CASE m.status[a] \in Terminal \cup {"ABSENT"}
  BY <1>1 DEF Cancel, Deferred, Terminal
<1>2. CASE m.status[a] \notin Terminal \cup {"ABSENT"}
  <2> DEFINE n == Cancel(m, a)
  <2>1. n = m \/ Cancels(m, n, a) BY CancelEffect
  <2>2. n = Clear(WithStatus(m, a, "CANCELED"), a) BY <1>2 DEF Cancel
  <2>3. n.status = [m.status EXCEPT ![a] = "CANCELED"]
    BY <2>2 DEF Clear, WithStatus, Good, Managers
  <2>4. n.status[a] = "CANCELED" BY <2>3 DEF Good, Managers
  <2> QED BY <2>4 DEF Deferred
<1> QED BY <1>1, <1>2

\* The planner looks around: nothing but its program counter and its copy of the
\* generation change.
LEMMA PlannerLooksKeeps ==
  ASSUME IInv, PlannerBegin \/ PlannerReadsForeground \/ PlannerReadsPending \/ PlannerGivesUp
  PROVE  IInv'
<1>1. /\ planner.pc \notin {"put", "withdraw"}
      /\ planner'.pc \notin {"put", "withdraw"}
      /\ planner'.gen \in {planner.gen, generation}
      /\ planner' \in [pc : PlannerSteps, act : Autonomous \cup {NoActivity}, gen : Nat]
  BY DEF PlannerBegin, PlannerReadsForeground, PlannerReadsPending, PlannerGivesUp,
     IInv, Types, PlannerSteps
<1>2. planner'.pc \in {"pending", "create"} =>
          /\ planner'.gen = planner.gen
          /\ mgr.foreground = NoActivity \/ planner.pc \in {"pending", "create"}
  BY DEF PlannerBegin, PlannerReadsForeground, PlannerReadsPending, PlannerGivesUp,
     IInv, Types, PlannerSteps
<1>3. UNCHANGED <<mgr, phase, planned, generation, conceived, publisher, gate>>
  BY DEF PlannerBegin, PlannerReadsForeground, PlannerReadsPending, PlannerGivesUp
<1>4. Types' BY <1>1, <1>3 DEF IInv, Types
<1>5. Known' /\ Accepting' /\ Held(phase', planned', "planned") /\ Gate' /\ QueuedTalkIsFresh'
  BY <1>3 DEF IInv, Known, Accepting, Gate, QueuedTalkIsFresh
<1>6. Talk'
  <2>1. planner.gen <= generation /\ generation <= generation
    BY DEF IInv, Types, Talk
  <2> QED BY <1>1, <1>3, <2>1 DEF Talk
<1>7. Cleared' BY <1>1, <1>3 DEF IInv, Cleared, BeingWithdrawn
<1>8. FloorStaysEmpty' BY <1>2, <1>3 DEF IInv, FloorStaysEmpty
<1> QED BY <1>4, <1>5, <1>6, <1>7, <1>8 DEF IInv

LEMMA PlannerCreatesKeeps ==
  ASSUME IInv, NEW a \in Autonomous, PlannerCreates(a) PROVE IInv'
<1>0. a \in Activity /\ mgr.status[a] = "ABSENT" /\ phase[a] = "new"
  BY KindsApart DEF PlannerCreates, IInv, Known
<1>1. phase' = [phase EXCEPT ![a] = "enriching"] /\ phase \in [Activity -> Phases]
  BY DEF PlannerCreates, SetPhase, IInv, Types
<1>2. /\ planner'.pc = "put" /\ planner'.act = a /\ planner'.gen = planner.gen
      /\ planner.pc = "create"
      /\ planner' \in [pc : PlannerSteps, act : Autonomous \cup {NoActivity}, gen : Nat]
  BY DEF PlannerCreates, IInv, Types, PlannerSteps
<1>3. Admits(mgr, mgr', a)
  BY <1>0, HandleAdmits DEF PlannerCreates, IInv, Types
<1>4. /\ Deferred(mgr') \subseteq Deferred(mgr) \cup {a}
      /\ mgr.foreground = NoActivity => a \notin Deferred(mgr')
  BY <1>0, TalkEnters DEF PlannerCreates, IInv, Types
<1>5. conceived' = [conceived EXCEPT ![a] = planner.gen] /\ conceived \in [Activity -> Nat]
      /\ planner.gen \in Nat
  BY DEF PlannerCreates, IInv, Types
<1>6. Types' BY <1>0, <1>1, <1>2, <1>3, <1>5 DEF PlannerCreates, IInv, Types, Admits, Phases
<1>7. Known' BY <1>0, <1>1, <1>3 DEF IInv, Known, Admits, Running
<1>8. Talk' BY <1>0, <1>1, <1>2, <1>5 DEF PlannerCreates, IInv, Talk
<1>9. Accepting' BY <1>0, <1>1, KindsApart DEF PlannerCreates, IInv, Accepting
<1>10. planned \in Seq(Activity) /\ planned' = planned
  BY KindsApart DEF PlannerCreates, IInv, Types
<1>11. Held(phase', planned', "planned")
  BY <1>0, <1>1, <1>10, StillHeld DEF IInv
<1>12. Gate' BY <1>0, GateStays DEF PlannerCreates
<1>13. Cleared'
  <2> SUFFICES ASSUME publisher.pc \in {"queue", "removed"}, NEW b \in Deferred(mgr')
               PROVE  BeingWithdrawn(b)'
    BY DEF Cleared, PlannerCreates
  <2>1. Deferred(mgr) = {} BY <1>2 DEF IInv, Cleared, BeingWithdrawn
  <2>2. b = a /\ mgr.foreground # NoActivity BY <1>4, <2>1
  <2>3. planner.gen # generation BY <1>2, <2>2 DEF IInv, FloorStaysEmpty
  <2> QED BY <1>2, <2>2, <2>3 DEF BeingWithdrawn, PlannerCreates
<1>14. FloorStaysEmpty' BY <1>2 DEF FloorStaysEmpty
<1>15. QueuedTalkIsFresh'
  <2>1. \A i \in DOMAIN planned : planned[i] # a BY <1>0 DEF IInv, Held
  <2> QED BY <1>5, <1>10, <2>1 DEF PlannerCreates, IInv, QueuedTalkIsFresh
<1> QED BY <1>6, <1>7, <1>8, <1>9, <1>11, <1>12, <1>13, <1>14, <1>15 DEF IInv

\* What the planner holds it may hand on.
LEMMA PlannerPutsKeeps ==
  ASSUME IInv, PlannerPuts PROVE IInv'
<1> DEFINE a == planner.act
<1>0. planner.pc = "put" /\ a \in Autonomous /\ a \in Activity /\ phase[a] = "enriching"
      /\ conceived[a] = planner.gen
  BY KindsApart DEF PlannerPuts, IInv, Talk
<1>1. CASE planner.gen = generation /\ planned' = <<a>> \o planned /\ SetPhase(a, "planned")
           /\ planner' = [planner EXCEPT !.pc = "idle", !.act = NoActivity]
  <2>1. phase' = [phase EXCEPT ![a] = "planned"] /\ phase \in [Activity -> Phases]
    BY <1>1 DEF SetPhase, IInv, Types
  <2>2. /\ planner'.pc = "idle" /\ planner'.gen = planner.gen
        /\ planner' \in [pc : PlannerSteps, act : Autonomous \cup {NoActivity}, gen : Nat]
    BY <1>1 DEF IInv, Types, PlannerSteps
  <2> HIDE DEF a
  <2>3. planned \in Seq(Autonomous) /\ planned \in Seq(Activity) BY KindsApart DEF IInv, Types
  <2>4. planned' \in Seq(Autonomous) BY <1>0, <1>1, <2>3
  <2>5. Types' BY <2>1, <2>2, <2>4 DEF PlannerPuts, IInv, Types, Phases
  <2>6. Known' BY <1>0, <2>1 DEF PlannerPuts, IInv, Known, Running
  <2>7. Talk' BY <2>2 DEF PlannerPuts, IInv, Talk
  <2>8. Accepting' BY <1>0, <2>1, KindsApart DEF PlannerPuts, IInv, Accepting
  <2>9. Held(phase', planned', "planned")
    BY <1>0, <1>1, <2>1, <2>3, HeldWithOneMore DEF IInv, Phases
  <2>10. Gate' BY <1>0, <1>1, GateStays DEF PlannerPuts
  <2>11. Cleared'
    BY <1>1 DEF PlannerPuts, IInv, Cleared, BeingWithdrawn
  <2>12. FloorStaysEmpty' BY <2>2 DEF FloorStaysEmpty
  <2>13. QueuedTalkIsFresh'
    <3>1. Len(planned') = Len(planned) + 1 /\ \A i \in 1 .. Len(planned) + 1 :
             planned'[i] = IF i = 1 THEN a ELSE planned[i - 1]
      BY <1>0, <1>1, <2>3
    <3>2. \A i \in 2 .. Len(planned) + 1 : i - 1 \in DOMAIN planned BY <2>3
    <3>3. DOMAIN planned' = 1 .. Len(planned) + 1 BY <2>4, <3>1
    <3> QED BY <1>0, <1>1, <3>1, <3>2, <3>3 DEF PlannerPuts, IInv, QueuedTalkIsFresh
  <2> QED BY <2>5, <2>6, <2>7, <2>8, <2>9, <2>10, <2>11, <2>12, <2>13 DEF IInv
<1>2. CASE planner.gen # generation /\ planner' = [planner EXCEPT !.pc = "withdraw"]
           /\ UNCHANGED <<planned, phase>>
  <2>1. /\ planner'.pc = "withdraw" /\ planner'.gen = planner.gen /\ planner'.act = planner.act
        /\ planner' \in [pc : PlannerSteps, act : Autonomous \cup {NoActivity}, gen : Nat]
    BY <1>2 DEF IInv, Types, PlannerSteps
  <2>2. UNCHANGED <<mgr, phase, planned, generation, conceived, publisher, gate>>
    BY <1>2 DEF PlannerPuts
  <2>3. Types' BY <2>1, <2>2 DEF IInv, Types
  <2>4. Known' /\ Accepting' /\ Held(phase', planned', "planned") /\ Gate' /\ QueuedTalkIsFresh'
    BY <2>2 DEF IInv, Known, Accepting, Gate, QueuedTalkIsFresh
  <2>5. Talk' BY <1>0, <1>2, <2>1, <2>2 DEF IInv, Talk
  <2>6. Cleared' /\ FloorStaysEmpty'
    BY <1>0, <2>1, <2>2 DEF IInv, Cleared, BeingWithdrawn, FloorStaysEmpty
  <2> QED BY <2>3, <2>4, <2>5, <2>6 DEF IInv
<1> QED BY <1>1, <1>2 DEF PlannerPuts

LEMMA PlannerWithdrawsKeeps ==
  ASSUME IInv, PlannerWithdraws PROVE IInv'
<1> DEFINE a == planner.act
<1>0. planner.pc = "withdraw" /\ a \in Autonomous /\ a \in Activity /\ phase[a] = "enriching"
  BY KindsApart DEF PlannerWithdraws, IInv, Talk
<1>1. phase' = [phase EXCEPT ![a] = "dropped"] /\ phase \in [Activity -> Phases]
  BY DEF PlannerWithdraws, SetPhase, IInv, Types
<1>2. /\ planner'.pc = "idle" /\ planner'.gen = planner.gen
      /\ planner' \in [pc : PlannerSteps, act : Autonomous \cup {NoActivity}, gen : Nat]
  BY DEF PlannerWithdraws, IInv, Types, PlannerSteps
<1>3. Calm(mgr, mgr') /\ a \notin Deferred(mgr')
  BY <1>0, CancelIsCalm, CancelEndsDeferral DEF PlannerWithdraws, IInv, Types
<1>4. Gate' BY <1>0, GateStays DEF PlannerWithdraws
<1>5. Cleared'
  BY <1>3 DEF PlannerWithdraws, IInv, Cleared, BeingWithdrawn, Calm
<1> HIDE DEF a
<1>6. Types' BY <1>1, <1>2, <1>3 DEF PlannerWithdraws, IInv, Types, Phases, Calm
<1>7. Known' BY <1>0, <1>1, <1>3 DEF IInv, Known, Calm, Running
<1>8. Talk' BY <1>2 DEF PlannerWithdraws, IInv, Talk
<1>9. Accepting' BY <1>0, <1>1, KindsApart DEF PlannerWithdraws, IInv, Accepting
<1>10. Held(phase', planned', "planned")
  <2>1. planned \in Seq(Activity) /\ planned' = planned
    BY KindsApart DEF PlannerWithdraws, IInv, Types
  <2> QED BY <1>0, <1>1, <2>1, StillHeld DEF IInv
<1>11. FloorStaysEmpty' /\ QueuedTalkIsFresh'
  BY <1>2 DEF PlannerWithdraws, IInv, FloorStaysEmpty, QueuedTalkIsFresh
<1> QED BY <1>4, <1>5, <1>6, <1>7, <1>8, <1>9, <1>10, <1>11 DEF IInv

LEMMA ExecutorFetchesKeeps ==
  ASSUME IInv, ExecutorFetches PROVE IInv'
<1> DEFINE a == Head(planned)
<1>0. planned \in Seq(Autonomous) /\ planned \in Seq(Activity) /\ planned # <<>>
      /\ planned' = Tail(planned)
  BY KindsApart DEF ExecutorFetches, IInv, Types
<1>1. a \in Autonomous /\ a \in Activity /\ phase[a] = "planned"
  <2>1. 1 \in DOMAIN planned /\ a = planned[1] BY <1>0
  <2> QED BY <1>0, <2>1, KindsApart DEF IInv, Held
<1>2. phase' = [phase EXCEPT ![a] = "fetched"] /\ phase \in [Activity -> Phases]
  BY DEF ExecutorFetches, SetPhase, IInv, Types
<1>3. Held(phase', planned', "planned")
  BY <1>0, <1>2, HeldTail DEF IInv
<1>4. Gate' BY <1>1, GateStays DEF ExecutorFetches
<1>5. QueuedTalkIsFresh'
  <2>1. \A i \in DOMAIN planned' : i + 1 \in DOMAIN planned /\ planned'[i] = planned[i + 1]
    BY <1>0
  <2> QED BY <2>1 DEF ExecutorFetches, IInv, QueuedTalkIsFresh
<1>6. Tail(planned) \in Seq(Autonomous) BY <1>0
<1> HIDE DEF a
<1>7. Types' BY <1>0, <1>2, <1>6 DEF ExecutorFetches, IInv, Types, Phases
<1>8. Known' BY <1>1, <1>2 DEF ExecutorFetches, IInv, Known, Running
<1>9. Talk' BY <1>1, <1>2 DEF ExecutorFetches, IInv, Talk
<1>10. Accepting' BY <1>1, <1>2, KindsApart DEF ExecutorFetches, IInv, Accepting
<1>11. Cleared' /\ FloorStaysEmpty'
  BY DEF ExecutorFetches, IInv, Cleared, BeingWithdrawn, FloorStaysEmpty
<1> QED BY <1>3, <1>4, <1>5, <1>7, <1>8, <1>9, <1>10, <1>11 DEF IInv

LEMMA StutterKeeps == IInv /\ UNCHANGED vars => IInv'
  BY DEF vars, IInv, Types, Known, Talk, Accepting, Gate, Cleared, BeingWithdrawn,
     FloorStaysEmpty, QueuedTalkIsFresh

LEMMA NextKeeps == IInv /\ [Next]_vars => IInv'
<1> SUFFICES ASSUME IInv, [Next]_vars PROVE IInv'
  OBVIOUS
<1>1. CASE Arrivals
  BY <1>1, PublishKeeps, PublishStartupKeeps, StartExplicitKeeps, PlannerLooksKeeps DEF Arrivals
<1>2. CASE PublisherNext
  BY <1>2, CancelInflightKeeps, CancelDeferredKeeps, RemoveQueuedKeeps, CancelRemovedKeeps,
     EnqueueTextKeeps DEF PublisherNext
<1>3. CASE PlannerNext
  BY <1>3, PlannerLooksKeeps, PlannerCreatesKeeps, PlannerPutsKeeps, PlannerWithdrawsKeeps
  DEF PlannerNext
<1>4. CASE ExecutorNext
  BY <1>4, ExecutorFetchesKeeps, ExecutorChecksKeeps, KindsApart DEF ExecutorNext
<1>5. CASE \E e \in LoopRuns : TakeEvent(e)
  BY <1>5, TakeEventKeeps
<1>6. CASE \E a \in Activity : RunNext(a) \/ StartOutput(a)
  BY <1>6, PlanReturnsKeeps, RunEndsKeeps, StartOutputKeeps, FinishOutputKeeps DEF RunNext
<1>7. CASE UNCHANGED vars
  BY <1>7, StutterKeeps
<1> QED BY <1>1, <1>2, <1>3, <1>4, <1>5, <1>6, <1>7 DEF Next

THEOREM Invariant == Spec => []IInv
  BY InitIsGood, NextKeeps, PTL DEF Spec

-----------------------------------------------------------------------------
\* No talk conceived before the last USER_TEXT is in the queue once its cancellations
\* are over, whichever way the planner and publish_events interleave.
THEOREM QueuedTalkIsFreshCorrect == Spec => []QueuedTalkIsFresh
<1>1. IInv => QueuedTalkIsFresh BY DEF IInv
<1> QED BY <1>1, Invariant, PTL

\* When a USER_TEXT enters the EventQueue, whatever talk is still deferred is the one
\* the planner is about to withdraw (discard_deferred_autonomous and the generation).
THEOREM AcceptanceClearsTalkCorrect == Spec => AcceptanceClearsTalk
<1> DEFINE P == EnqueueText => \A a \in Autonomous :
            mgr.status[a] \in {"PENDING", "SUSPENDED"} =>
                phase[a] = "enriching" /\ planner.gen # generation
<1>1. IInv => P
  BY DEF EnqueueText, IInv, Cleared, BeingWithdrawn, Talk, Deferred, Autonomous
<1>2. IInv /\ [Next]_vars => [P]_vars BY <1>1
<1> QED BY <1>2, Invariant, PTL DEF Spec, AcceptanceClearsTalk

-----------------------------------------------------------------------------
\* Every step of the threads and tasks is one operation of the manager or none.
LEMMA NextIsOperation == IInv /\ [Next]_vars => [ManagerNext]_mgr
<1> SUFFICES ASSUME IInv, Next, mgr' # mgr PROVE ManagerNext
  BY DEF vars
<1>1. CASE Arrivals
  <2>1. ASSUME NEW u \in UserTexts, Publish(u) PROVE ManagerNext
    BY <2>1 DEF Publish, UserTexts, ManagerNext, Prepare
  <2>2. ASSUME NEW x \in Explicits, StartExplicit(x) PROVE ManagerNext
    <3>1. x \in Activity /\ mgr.status[x] = "ABSENT"
      BY <2>2 DEF StartExplicit, Explicits, IInv, Known
    <3> QED BY <2>2, <3>1 DEF StartExplicit, ManagerNext, Register
  <2> QED BY <1>1, <2>1, <2>2 DEF Arrivals, PublishStartup, PlannerBegin
<1>2. CASE PublisherNext
  <2>1. CASE CancelDeferred
    BY <2>1 DEF CancelDeferred, ManagerNext, Discard
  <2>2. CASE CancelRemoved
    <3>1. Head(publisher.removed) \in Activity BY <2>2, CancelRemovedKeeps, KindsApart
    <3> QED BY <2>2, <3>1 DEF CancelRemoved, ManagerNext, CancelActivity
  <2> QED BY <1>2, <2>1, <2>2 DEF PublisherNext, CancelInflight, RemoveQueued, EnqueueText
<1>3. CASE PlannerNext
  <2>1. ASSUME NEW a \in Autonomous, PlannerCreates(a) PROVE ManagerNext
    BY <2>1, KindsApart DEF PlannerCreates, ManagerNext, Handle
  <2>2. CASE PlannerWithdraws
    <3>1. planner.act \in Activity
      BY <2>2, KindsApart DEF PlannerWithdraws, IInv, Talk
    <3> QED BY <2>2, <3>1 DEF PlannerWithdraws, ManagerNext, CancelActivity
  <2> QED BY <1>3, <2>1, <2>2 DEF PlannerNext, PlannerReadsForeground, PlannerReadsPending,
          PlannerGivesUp, PlannerPuts
<1>4. CASE ExecutorNext
  BY <1>4 DEF ExecutorNext, ExecutorFetches, ExecutorChecks
<1>5. ASSUME NEW e \in LoopRuns, TakeEvent(e) PROVE ManagerNext
  BY <1>5, KindsApart DEF TakeEvent, ManagerNext, Handle
<1>6. ASSUME NEW a \in Activity, RunNext(a) \/ StartOutput(a) PROVE ManagerNext
  <2>1. PlanRaises(a) \/ CompleteRun(a)
    BY <1>6 DEF RunNext, PlanReturns, FinishOutput, StartOutput
  <2>2. mgr.status[a] # "ABSENT" /\ mgr' \in CompleteProcessed(mgr, a)
    BY <2>1 DEF PlanRaises, CompleteRun, IInv, Known, Running
  <2> QED BY <2>2 DEF ManagerNext, Finish
<1> QED BY <1>1, <1>2, <1>3, <1>4, <1>5, <1>6 DEF Next

\* The runtime's threads and tasks call the ActivityManager as its specification
\* allows, so what ActivityManager_proofs proves of it holds in the runtime.
THEOREM ImplementsManagerCorrect == Spec => ImplementsManager
<1>1. Init => ManagerInit
  BY DEF Init, ManagerInit
<1> QED BY <1>1, NextIsOperation, Invariant, PTL DEF Spec, ImplementsManager, ManagerSpec

-----------------------------------------------------------------------------
(***************************************************************************)
(* A console session: nothing runs beside the coordinator's loop, and one  *)
(* USER_TEXT is typed, at any moment, among any number of start-up         *)
(* reactions and talks.                                                    *)
(***************************************************************************)

ConsoleSession == Explicits = {} /\ \A u, v \in UserTexts : u = v

OnTheWay == {"accepted", "queued"} \cup Running

\* With the manager m and the phases ph a conversation that has the floor is on its way,
\* and it never waits for the floor: until the manager is given it no start-up reaction
\* waits either, nor has the floor without being run.
Staffed(m, ph) ==
    /\ \A u \in UserTexts : m.status[u] = "ACTIVE" => ph[u] \in OnTheWay
    /\ \A u \in UserTexts : m.status[u] \notin {"PENDING", "SUSPENDED"}
    /\ \A u \in UserTexts : m.status[u] = "ABSENT" => \A s \in Startups :
          /\ m.status[s] # "PENDING"
          /\ m.status[s] = "ACTIVE" => ph[s] \in Running
    /\ \A a \in Activity : kindOf[a] = "idle" => ph[a] = "new"

\* The operation is about talk alone.
Spares(m, n) == \A b \in Activity : b \notin Autonomous => n.status[b] = m.status[b]

LEMMA SparedStays ==
  ASSUME NEW m, NEW n, NEW ph, NEW pi, Staffed(m, ph), Spares(m, n),
         \A b \in Activity : b \notin Autonomous => pi[b] = ph[b]
  PROVE  Staffed(n, pi)
<1>1. /\ \A b \in LoopRuns : b \in Activity /\ b \notin Autonomous
      /\ \A u \in UserTexts : u \in LoopRuns
      /\ \A s \in Startups : s \in LoopRuns
      /\ \A b \in Activity : kindOf[b] = "idle" => b \notin Autonomous
  BY KindsApart DEF Autonomous
<1> QED BY <1>1 DEF Staffed, Spares

LEMMA CancelSpares ==
  ASSUME NEW m, Good(m), NEW a \in Autonomous
  PROVE  Spares(m, Cancel(m, a))
<1>1. a \in Activity BY KindsApart
<1>2. Cancel(m, a) = m \/ Cancels(m, Cancel(m, a), a) BY <1>1, CancelEffect
<1> QED BY <1>2 DEF Cancels, Spares

LEMMA DiscardSpares ==
  ASSUME NEW m, Good(m)
  PROVE  Spares(m, DiscardDeferred(m))
<1>1. Discards(m, DiscardDeferred(m)) BY DiscardEffect
<1>2. \A b \in Deferred(m) : b \in Autonomous BY DEF Deferred, Autonomous
<1> QED BY <1>1, <1>2 DEF Discards, Spares

\* Talk has the floor of nothing but an idle Activity to take.
LEMMA TalkSpares ==
  ASSUME NEW m, Good(m), NEW a \in Autonomous, m.status[a] = "ABSENT",
         \A b \in Activity : kindOf[b] = "idle" => m.status[b] = "ABSENT"
  PROVE  Spares(m, HandleEvent(m, a))
<1> DEFINE n == HandleEvent(m, a)
<1>1. a \in Activity BY KindsApart
<1>2. n = Resolve(m, a) BY DEF HandleEvent
<1>3. Enters(m, n, a) \/ TakesOver(m, n, a) BY <1>1, <1>2, ResolveEffect
<1> HIDE DEF n
<1>4. ASSUME Enters(m, n, a) PROVE Spares(m, n)
  BY <1>4 DEF Enters, Spares
<1>5. ASSUME TakesOver(m, n, a) PROVE Spares(m, n)
  <2>1. m.foreground \in Activity /\ m.status[m.foreground] = "ACTIVE" /\ Interruptible(m.foreground)
    BY <1>5 DEF TakesOver
  <2>2. m.foreground \in Autonomous BY <2>1 DEF Interruptible, Autonomous
  <2> QED BY <1>5, <2>2 DEF TakesOver, Spares
<1> QED BY <1>3, <1>4, <1>5 DEF n

\* On an empty floor, or one that talk has, an event of the loop is made ACTIVE at once.
LEMMA LoopTakesFloor ==
  ASSUME NEW m, Good(m), NEW e \in LoopRuns, m.status[e] = "ABSENT",
         m.foreground = NoActivity \/ m.foreground \in Autonomous
  PROVE  /\ HandleEvent(m, e).status[e] = "ACTIVE"
         /\ \A b \in LoopRuns : b # e => HandleEvent(m, e).status[b] = m.status[b]
<1> DEFINE n == HandleEvent(m, e)
<1>1. e \in Activity /\ n = Resolve(m, e) BY KindsApart DEF HandleEvent
<1>2. CASE m.foreground = NoActivity
  <2>1. Enters(m, n, e) \/ TakesOver(m, n, e) BY <1>1, ResolveEffect
  <2> HIDE DEF n
  <2>2. Enters(m, n, e) BY <1>2, <2>1, NoActivityAssumption DEF TakesOver
  <2>3. n.status[e] = "ACTIVE" /\ \A b \in Activity : b # e => n.status[b] = m.status[b]
    BY <1>2, <2>2 DEF Enters
  <2> QED BY <2>3, KindsApart DEF n
<1>3. CASE m.foreground \in Autonomous
  <2>1. m.foreground \in Activity /\ m.foreground # NoActivity /\ kindOf[m.foreground] = "autonomous"
    BY <1>3, KindsApart DEF Autonomous
  <2>2. Priority(m.foreground) = 65 /\ Priority(e) \in {150, 110} /\ Interruptible(m.foreground)
    BY <2>1 DEF Priority, LoopRuns, UserTexts, Startups, Interruptible
  <2>3. Priority(e) > Priority(m.foreground) BY <2>2
  <2>4. n = Activate(Insert(WithStatus(m, m.foreground, "SUSPENDED"), e, "ACTIVE"), e)
    BY <1>1, <2>1, <2>2, <2>3 DEF Resolve, ShouldActivate
  <2>5. TakesOver(m, n, e) BY <1>1, <2>1, <2>2, <2>3, <2>4, TakeOverEffect
  <2> HIDE DEF n
  <2>6. \A b \in LoopRuns : b \in Activity /\ b # m.foreground BY <1>3, KindsApart
  <2>7. n.status[e] = "ACTIVE" /\ \A b \in LoopRuns : b # e => n.status[b] = m.status[b]
    BY <2>5, <2>6 DEF TakesOver
  <2> QED BY <2>7 DEF n
<1> QED BY <1>2, <1>3

-----------------------------------------------------------------------------
\* What has no phase but "new" is not known to the manager.
LEMMA IdleIsAbsent ==
  ASSUME IInv, Staffed(mgr, phase), NEW a \in Activity, kindOf[a] = "idle"
  PROVE  mgr.status[a] = "ABSENT"
  BY DEF IInv, Known, Staffed

\* Talk gets on; nobody else does.
LEMMA TalkStepStaffed ==
  ASSUME IInv, Staffed(mgr, phase), Spares(mgr, mgr'), NEW a \in Autonomous, NEW q,
         phase' = phase \/ SetPhase(a, q)
  PROVE  Staffed(mgr', phase')
<1>1. \A b \in Activity : b \notin Autonomous => phase'[b] = phase[b]
  BY DEF IInv, Types, SetPhase
<1> QED BY <1>1, SparedStays

LEMMA SparesNothing == Spares(mgr, mgr)
  BY DEF Spares

LEMMA PublishStaffed ==
  ASSUME IInv, Staffed(mgr, phase), ConsoleSession, NEW u \in UserTexts, Publish(u)
  PROVE  Staffed(mgr', phase')
<1>1. u \in Activity /\ kindOf[u] = "conversation" /\ \A v \in UserTexts : v = u
  BY DEF UserTexts, ConsoleSession
<1>2. phase' = [phase EXCEPT ![u] = "accepted"] /\ phase \in [Activity -> Phases]
      /\ phase[u] = "new" /\ mgr.status[u] = "ABSENT"
  BY <1>1 DEF Publish, SetPhase, IInv, Types, Known
<1>3. \A b \in Activity : b # u => phase'[b] = phase[b]
  BY <1>2
<1>4. phase'[u] = "accepted" BY <1>1, <1>2
<1>5. \A s \in Startups : s # u /\ s \in Activity BY <1>1 DEF Startups
<1>6. mgr' = mgr \/ TakesOver(mgr, mgr', u)
  BY <1>1, PrepareEffect DEF Publish, IInv, Types
<1>7. mgr'.status[u] \in {"ABSENT", "ACTIVE"}
  BY <1>2, <1>6 DEF TakesOver
<1>8. mgr'.status[u] = "ABSENT" => mgr' = mgr
  BY <1>6 DEF TakesOver
<1>9. \A a \in Activity : kindOf[a] = "idle" => a # u
  BY <1>1
<1>10. "accepted" \in OnTheWay BY DEF OnTheWay
<1> QED BY <1>1, <1>2, <1>3, <1>4, <1>5, <1>7, <1>8, <1>9, <1>10 DEF Staffed

\* A start-up reaction, or the USER_TEXT, enters the EventQueue.
LEMMA QueueStaffed ==
  ASSUME IInv, Staffed(mgr, phase), NEW e \in LoopRuns, SetPhase(e, "queued"), mgr' = mgr,
         e \in Startups => mgr.status[e] = "ABSENT"
  PROVE  Staffed(mgr', phase')
<1>1. /\ \A b \in Activity : b # e => phase'[b] = phase[b]
      /\ e \in Activity => phase'[e] = "queued"
  BY DEF SetPhase, IInv, Types
<1>2. \A b \in UserTexts \cup Startups : b \in Activity
  BY KindsApart
<1>3. \A a \in Activity : kindOf[a] = "idle" => a # e
  BY DEF LoopRuns, UserTexts, Startups
<1>4. "queued" \in OnTheWay BY DEF OnTheWay
<1> QED BY <1>1, <1>2, <1>3, <1>4 DEF Staffed

LEMMA RemoveQueuedStaffed ==
  ASSUME IInv, Staffed(mgr, phase), RemoveQueued
  PROVE  Staffed(mgr', phase')
<1>1. \A a \in Activity : phase'[a] = IF phase[a] = "planned" THEN "dropped" ELSE phase[a]
  BY DEF RemoveQueued
<1>2. \A b \in UserTexts \cup Startups : b \in Activity
  BY KindsApart
<1>3. mgr' = mgr /\ "planned" \notin OnTheWay /\ "planned" \notin Running
  BY DEF RemoveQueued, OnTheWay, Running
<1> QED BY <1>1, <1>2, <1>3 DEF Staffed

LEMMA TakeEventStaffed ==
  ASSUME IInv, Staffed(mgr, phase), ConsoleSession, NEW e \in LoopRuns, TakeEvent(e)
  PROVE  Staffed(mgr', phase')
<1>1. /\ \A b \in UserTexts \cup Startups : b \in Activity /\ b \in LoopRuns
      /\ e \in Activity /\ (e \in UserTexts \/ e \in Startups)
      /\ \A a \in Activity : kindOf[a] = "idle" => a # e
      /\ UserTexts \cap Startups = {}
  BY KindsApart DEF LoopRuns, UserTexts, Startups
<1>2. /\ \A b \in Activity : b # e => phase'[b] = phase[b]
      /\ phase'[e] = "planning" /\ "planning" \in Running /\ "planning" \in OnTheWay
  BY <1>1 DEF TakeEvent, SetPhase, IInv, Types, Running, OnTheWay
<1>3. mgr' = HandleEvent(mgr, e) /\ \A a \in LoopRuns : phase[a] \notin Running
  BY DEF TakeEvent, LoopIdle
<1>4. Good(mgr) BY DEF IInv, Types
<1>5. CASE mgr.status[e] # "ABSENT"
  <2>1. mgr' = mgr BY <1>3, <1>5 DEF HandleEvent
  <2> QED BY <1>1, <1>2, <2>1 DEF Staffed
<1>6. CASE mgr.status[e] = "ABSENT" /\ \E u \in UserTexts : mgr.status[u] = "ABSENT"
  <2>1. PICK u \in UserTexts : mgr.status[u] = "ABSENT" BY <1>6
  <2>2. \A v \in UserTexts : v = u BY DEF ConsoleSession
  <2>3. mgr.foreground = NoActivity \/ mgr.foreground \in Autonomous
    <3> SUFFICES ASSUME mgr.foreground # NoActivity PROVE mgr.foreground \in Autonomous
      OBVIOUS
    <3> DEFINE f == mgr.foreground
    <3>1. f \in Activity /\ mgr.status[f] = "ACTIVE" BY <1>4 DEF Good, Managers, OneActive
    <3>2. f \notin UserTexts BY <2>1, <2>2, <3>1
    <3>3. f \notin Startups BY <1>1, <1>3, <2>1, <3>1 DEF Staffed
    <3>4. f \notin Explicits BY DEF ConsoleSession
    <3>5. kindOf[f] # "idle" BY <3>1, IdleIsAbsent
    <3>6. kindOf[f] \in Kinds BY <3>1, KindAssumption
    <3> QED BY <3>1, <3>2, <3>3, <3>4, <3>5, <3>6 DEF UserTexts, Startups, Explicits, Autonomous, Kinds
  <2>4. mgr'.status[e] = "ACTIVE" /\ \A b \in LoopRuns : b # e => mgr'.status[b] = mgr.status[b]
    BY <1>3, <1>4, <1>6, <2>3, LoopTakesFloor
  <2> QED BY <1>1, <1>2, <2>4 DEF Staffed
<1>7. CASE mgr.status[e] = "ABSENT" /\ \A u \in UserTexts : mgr.status[u] # "ABSENT"
  <2>1. mgr' = Resolve(mgr, e) BY <1>3, <1>7 DEF HandleEvent
  <2>2. Enters(mgr, mgr', e) \/ TakesOver(mgr, mgr', e) BY <1>1, <1>4, <1>7, <2>1, ResolveEffect
  <2>3. \A u \in UserTexts : u # e /\ mgr'.status[u] = mgr.status[u]
    <3>1. \A u \in UserTexts : u # e BY <1>7
    <3>2. CASE Enters(mgr, mgr', e) BY <1>1, <3>1, <3>2 DEF Enters
    <3>3. CASE TakesOver(mgr, mgr', e)
      <4>1. Interruptible(mgr.foreground) BY <3>3 DEF TakesOver
      <4>2. mgr.foreground \notin UserTexts BY <4>1 DEF Interruptible, UserTexts
      <4> QED BY <1>1, <3>1, <3>3, <4>2 DEF TakesOver
    <3> QED BY <2>2, <3>1, <3>2, <3>3
  <2> QED BY <1>1, <1>2, <1>7, <2>3 DEF Staffed
<1> QED BY <1>5, <1>6, <1>7

\* A run gets on, or is dropped because its Activity is not ACTIVE any more.
LEMMA RunStaffed ==
  ASSUME IInv, Staffed(mgr, phase), NEW a \in Activity, PlanReturns(a) \/ StartOutput(a) \/ FinishOutput(a)
  PROVE  Staffed(mgr', phase')
<1>1. mgr' = mgr /\ phase \in [Activity -> Phases]
  BY DEF PlanReturns, StartOutput, FinishOutput, IInv, Types
<1>2. phase[a] \in Running
  <2>1. CASE PlanReturns(a) BY <2>1 DEF PlanReturns, Running
  <2>2. CASE StartOutput(a) BY <2>2 DEF StartOutput, IInv, Gate, Held, Running
  <2>3. CASE FinishOutput(a) BY <2>3, KindsApart DEF FinishOutput, IInv, Gate, Running
  <2> QED BY <2>1, <2>2, <2>3
<1>3. \/ \E q \in Running : SetPhase(a, q)
      \/ SetPhase(a, "dropped") /\ mgr.status[a] # "ACTIVE"
  <2>1. "waiting" \in Running /\ "speaking" \in Running /\ "spoken" \in Running
    BY DEF Running
  <2> QED BY <2>1 DEF PlanReturns, StartOutput, FinishOutput, Withdrawn
<1>4. /\ phase'[a] \in Running \/ mgr.status[a] # "ACTIVE"
      /\ \A b \in Activity : b # a => phase'[b] = phase[b]
  BY <1>1, <1>3 DEF SetPhase
<1>5. kindOf[a] # "idle" BY <1>2 DEF Staffed, Running
<1>6. \A b \in UserTexts \cup Startups : b \in Activity BY KindsApart
<1> QED BY <1>1, <1>4, <1>5, <1>6 DEF Staffed, OnTheWay

\* Who completes leaves the floor to nobody but talk as long as the conversation is to come.
LEMMA RunEndsStaffed ==
  ASSUME IInv, Staffed(mgr, phase), NEW a \in Activity, PlanRaises(a) \/ CompleteRun(a)
  PROVE  Staffed(mgr', phase')
<1>1. /\ phase[a] \in Running /\ mgr.status[a] # "ABSENT"
      /\ mgr' \in CompleteProcessed(mgr, a) /\ SetPhase(a, "done")
  BY DEF PlanRaises, CompleteRun, IInv, Known, Running
<1>2. PICK r \in Activity \cup {NoActivity} : Completes(mgr, mgr', a, r)
  BY <1>1, FinishEffect DEF IInv, Types
<1>3. \A b \in Activity : b # a => phase'[b] = phase[b]
  BY <1>1 DEF SetPhase, IInv, Types
<1>4. kindOf[a] # "idle" BY <1>1 DEF Staffed, Running
<1>5. /\ mgr'.status[a] = "COMPLETED"
      /\ \A b \in LoopRuns : b # a /\ b # r => mgr'.status[b] = mgr.status[b]
      /\ r \in LoopRuns => mgr.status[r] = "PENDING"
  <2>1. \A b \in LoopRuns : b \in Activity /\ b \notin Deferred(mgr)
    BY KindsApart DEF Deferred, Autonomous
  <2> QED BY <1>2, <2>1, NoActivityAssumption DEF Completes
<1>6. \A u \in UserTexts : u # r /\ u \in LoopRuns /\ u \in Activity
  BY <1>5, KindsApart DEF Staffed
<1>7. \A s \in Startups : s \in LoopRuns /\ s \in Activity
  BY KindsApart
<1>8. \A u \in UserTexts : u # a => mgr'.status[u] = mgr.status[u]
  BY <1>5, <1>6
<1> QED BY <1>3, <1>4, <1>5, <1>6, <1>7, <1>8 DEF Staffed

LEMMA ArrivalsStaffed ==
  ASSUME IInv, Staffed(mgr, phase), ConsoleSession, Arrivals
  PROVE  Staffed(mgr', phase')
<1>1. ASSUME NEW u \in UserTexts, Publish(u) PROVE Staffed(mgr', phase')
  BY <1>1, PublishStaffed
<1>2. ASSUME NEW s \in Startups, PublishStartup(s) PROVE Staffed(mgr', phase')
  <2>1. s \in LoopRuns /\ mgr.status[s] = "ABSENT" /\ mgr' = mgr /\ SetPhase(s, "queued")
    BY <1>2, KindsApart DEF PublishStartup, IInv, Known
  <2> QED BY <2>1, QueueStaffed
<1>3. ASSUME PlannerBegin PROVE Staffed(mgr', phase')
  BY <1>3 DEF PlannerBegin
<1> QED BY <1>1, <1>2, <1>3 DEF Arrivals, ConsoleSession

LEMMA PublisherStaffed ==
  ASSUME IInv, Staffed(mgr, phase), PublisherNext
  PROVE  Staffed(mgr', phase')
<1>1. Good(mgr) BY DEF IInv, Types
<1>2. CASE CancelInflight BY <1>2 DEF CancelInflight
<1>3. CASE CancelDeferred
  <2>1. Spares(mgr, mgr') /\ phase' = phase BY <1>1, <1>3, DiscardSpares DEF CancelDeferred
  <2> QED BY <2>1, SparedStays
<1>4. CASE RemoveQueued BY <1>4, RemoveQueuedStaffed
<1>5. CASE CancelRemoved
  <2>1. Head(publisher.removed) \in Autonomous BY <1>5, CancelRemovedKeeps
  <2>2. Spares(mgr, mgr') /\ phase' = phase BY <1>1, <1>5, <2>1, CancelSpares DEF CancelRemoved
  <2> QED BY <2>2, SparedStays
<1>6. CASE EnqueueText
  <2> DEFINE u == publisher.text
  <2>1. /\ u \in LoopRuns /\ u \notin Startups /\ mgr' = mgr /\ SetPhase(u, "queued")
    BY <1>6, KindsApart DEF EnqueueText, IInv, Accepting, UserTexts, Startups
  <2> HIDE DEF u
  <2> QED BY <2>1, QueueStaffed
<1> QED BY <1>2, <1>3, <1>4, <1>5, <1>6 DEF PublisherNext

LEMMA ThreadsStaffed ==
  ASSUME IInv, Staffed(mgr, phase), PlannerNext \/ ExecutorNext
  PROVE  Staffed(mgr', phase')
<1>1. Good(mgr) BY DEF IInv, Types
<1>2. ASSUME mgr' = mgr, phase' = phase PROVE Staffed(mgr', phase')
  BY <1>2
<1>3. ASSUME PlannerReadsForeground \/ PlannerReadsPending \/ PlannerGivesUp
      PROVE  Staffed(mgr', phase')
  BY <1>2, <1>3 DEF PlannerReadsForeground, PlannerReadsPending, PlannerGivesUp
<1>4. ASSUME NEW a \in Autonomous, PlannerCreates(a) PROVE Staffed(mgr', phase')
  <2>1. mgr.status[a] = "ABSENT" BY <1>4, KindsApart DEF PlannerCreates, IInv, Known
  <2>2. \A b \in Activity : kindOf[b] = "idle" => mgr.status[b] = "ABSENT" BY IdleIsAbsent
  <2>3. Spares(mgr, HandleEvent(mgr, a)) BY <1>1, <2>1, <2>2, TalkSpares
  <2>4. Spares(mgr, mgr') /\ SetPhase(a, "enriching") BY <1>4, <2>3 DEF PlannerCreates
  <2> QED BY <2>4, TalkStepStaffed
<1>5. ASSUME PlannerPuts PROVE Staffed(mgr', phase')
  <2>1. planner.act \in Autonomous BY <1>5 DEF PlannerPuts, IInv, Talk
  <2>2. Spares(mgr, mgr') /\ (phase' = phase \/ SetPhase(planner.act, "planned"))
    BY <1>5, SparesNothing DEF PlannerPuts
  <2> QED BY <2>1, <2>2, TalkStepStaffed
<1>6. ASSUME PlannerWithdraws PROVE Staffed(mgr', phase')
  <2>1. planner.act \in Autonomous BY <1>6 DEF PlannerWithdraws, IInv, Talk
  <2>2. Spares(mgr, mgr') /\ SetPhase(planner.act, "dropped")
    BY <1>1, <1>6, <2>1, CancelSpares DEF PlannerWithdraws
  <2> QED BY <2>1, <2>2, TalkStepStaffed
<1>7. ASSUME ExecutorFetches PROVE Staffed(mgr', phase')
  <2>1. planned \in Seq(Autonomous) /\ planned # <<>> BY <1>7 DEF ExecutorFetches, IInv, Types
  <2>2. Head(planned) \in Autonomous BY <2>1
  <2>3. Spares(mgr, mgr') /\ SetPhase(Head(planned), "fetched")
    BY <1>7, SparesNothing DEF ExecutorFetches
  <2> QED BY <2>2, <2>3, TalkStepStaffed
<1>8. ASSUME NEW a \in Autonomous, ExecutorChecks(a) PROVE Staffed(mgr', phase')
  <2> DEFINE q == IF mgr.status[a] = "ACTIVE" THEN "planning" ELSE "dropped"
  <2>1. Spares(mgr, mgr') /\ SetPhase(a, q)
    BY <1>8, SparesNothing DEF ExecutorChecks
  <2> HIDE DEF q
  <2> QED BY <2>1, TalkStepStaffed
<1> QED BY <1>3, <1>4, <1>5, <1>6, <1>7, <1>8 DEF PlannerNext, ExecutorNext

LEMMA NextStaffed == ConsoleSession /\ IInv /\ Staffed(mgr, phase) /\ [Next]_vars => Staffed(mgr, phase)'
<1> SUFFICES ASSUME ConsoleSession, IInv, Staffed(mgr, phase), [Next]_vars
             PROVE  Staffed(mgr', phase')
  BY DEF Staffed
<1>1. CASE Arrivals BY <1>1, ArrivalsStaffed
<1>2. CASE PublisherNext BY <1>2, PublisherStaffed
<1>3. CASE PlannerNext \/ ExecutorNext BY <1>3, ThreadsStaffed
<1>4. CASE \E e \in LoopRuns : TakeEvent(e) BY <1>4, TakeEventStaffed
<1>5. CASE \E a \in Activity : RunNext(a) \/ StartOutput(a)
  BY <1>5, RunStaffed, RunEndsStaffed DEF RunNext
<1>6. CASE UNCHANGED vars BY <1>6 DEF vars
<1> QED BY <1>1, <1>2, <1>3, <1>4, <1>5, <1>6 DEF Next

\* In a console session with one USER_TEXT the conversation that has the floor is being
\* accepted, queued or run: however talk, start-up reactions and failures fall, it is never
\* the foreground with nobody left to answer it (prepare_user_input and _handle_event).
THEOREM ConversationHasRunnerCorrect == ConsoleSession /\ Spec => []ConversationHasRunner
<1>1. Init => Staffed(mgr, phase)
  BY KindsApart DEF Init, Staffed, EmptyManager
<1>2. Staffed(mgr, phase) => ConversationHasRunner
  BY DEF Staffed, ConversationHasRunner, OnTheWay
<1>3. SUFFICES ASSUME ConsoleSession PROVE Spec => []ConversationHasRunner
  OBVIOUS
<1>4. IInv /\ Staffed(mgr, phase) /\ [Next]_vars => Staffed(mgr, phase)'
  BY <1>3, NextStaffed
<1> QED BY <1>1, <1>2, <1>4, Invariant, PTL DEF Spec
=============================================================================
