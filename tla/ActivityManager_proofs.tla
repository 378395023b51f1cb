------------------------ MODULE ActivityManager_proofs ------------------------
(***************************************************************************)
(* What ActivityManager promises, for every set of Activities and every    *)
(* assignment of kinds.                                                    *)
(*                                                                         *)
(* First what the operators of ActivityArbitration do to a manager: each   *)
(* leads from a good manager to a good one, and its effect on the statuses *)
(* is one of five.  With these lemmas each action of the specification is  *)
(* a line of the proof, here and in RuntimeActivities_proofs.              *)
(***************************************************************************)
EXTENDS ActivityManager, TLAPS

\* The foreground of m is its one ACTIVE Activity.
OneActive(m) == \A a \in Activity : m.status[a] = "ACTIVE" <=> m.foreground = a

\* The Activities in the dict were inserted one after the other.
InOrder(m) ==
    \A a \in Activity : m.status[a] # "ABSENT" =>
        /\ m.arrival[a] < m.count
        /\ \A b \in Activity : (m.status[b] # "ABSENT" /\ b # a) => m.arrival[a] # m.arrival[b]

Good(m) == m \in Managers /\ OneActive(m) /\ InOrder(m)

-----------------------------------------------------------------------------
LEMMA EmptyIsGood == Good(EmptyManager)
  BY NoActivityAssumption DEF EmptyManager, Good, Managers, OneActive, InOrder, Statuses

\* Activate takes an Activity to the front when no other one is ACTIVE.
LEMMA ActivateIsGood ==
  ASSUME NEW m, m \in Managers, InOrder(m), NEW a \in Activity, m.status[a] # "ABSENT",
         \A b \in Activity : m.status[b] = "ACTIVE" => b = a
  PROVE  Good(Activate(m, a))
<1>1. /\ Activate(m, a).status = [m.status EXCEPT ![a] = "ACTIVE"]
      /\ Activate(m, a).foreground = a
      /\ Activate(m, a).arrival = m.arrival
      /\ Activate(m, a).count = m.count
  BY DEF Activate, Managers
<1>2. Activate(m, a) \in Managers BY DEF Activate, Managers, Statuses
<1>3. OneActive(Activate(m, a)) BY <1>1 DEF OneActive, Managers
<1>4. InOrder(Activate(m, a)) BY <1>1 DEF InOrder, Managers
<1> QED BY <1>2, <1>3, <1>4 DEF Good

\* A new Activity takes the place of a foreground that is set aside, if any.
LEMMA TakeOverIsGood ==
  ASSUME NEW m, Good(m), NEW a \in Activity, m.status[a] = "ABSENT",
         m.foreground \in Activity
  PROVE  Good(Activate(Insert(WithStatus(m, m.foreground, "SUSPENDED"), a, "ACTIVE"), a))
<1> DEFINE s == WithStatus(m, m.foreground, "SUSPENDED")
           i == Insert(s, a, "ACTIVE")
<1>1. s \in Managers /\ s.foreground = m.foreground /\ s.count = m.count
      /\ s.arrival = m.arrival /\ s.status[a] = "ABSENT"
      /\ \A b \in Activity : s.status[b] # "ACTIVE"
      /\ \A c \in Activity : s.status[c] = "ABSENT" <=> m.status[c] = "ABSENT"
  BY DEF Good, Managers, OneActive, Statuses, WithStatus
<1>2. i \in Managers /\ InOrder(i) /\ \A b \in Activity : i.status[b] = "ACTIVE" <=> b = a
  <2> HIDE DEF s
  <2>1. i \in Managers BY <1>1 DEF Managers, Statuses, Insert
  <2>2. InOrder(i) BY <1>1 DEF Good, Managers, InOrder, Statuses, Insert
  <2>3. \A b \in Activity : i.status[b] = "ACTIVE" <=> b = a
    <3>1. i.status = [s.status EXCEPT ![a] = "ACTIVE"] BY DEF Insert
    <3>2. s.status \in [Activity -> Statuses] BY <1>1 DEF Managers
    <3> QED BY <1>1, <3>1, <3>2
  <2> QED BY <2>1, <2>2, <2>3
<1>3. i.status[a] # "ABSENT" BY <1>2
<1> QED BY <1>2, <1>3, ActivateIsGood

LEMMA ResolveIsGood ==
  ASSUME NEW m, Good(m), NEW a \in Activity, m.status[a] = "ABSENT"
  PROVE  Good(Resolve(m, a))
<1>1. CASE m.foreground = NoActivity
  <2>1. Insert(m, a, "ACTIVE") \in Managers /\ InOrder(Insert(m, a, "ACTIVE"))
        /\ \A b \in Activity : Insert(m, a, "ACTIVE").status[b] = "ACTIVE" <=> b = a
    BY <1>1, NoActivityAssumption DEF Good, Managers, OneActive, InOrder, Statuses, Insert
  <2>2. Insert(m, a, "ACTIVE").status[a] # "ABSENT" BY <2>1
  <2>3. Good(Activate(Insert(m, a, "ACTIVE"), a)) BY <2>1, <2>2, ActivateIsGood
  <2> QED BY <1>1, <2>3 DEF Resolve
<1>2. CASE m.foreground # NoActivity /\ ShouldActivate(m.foreground, a)
  <2>1. m.foreground \in Activity BY <1>2 DEF Good, Managers
  <2> QED BY <1>2, <2>1, TakeOverIsGood DEF Resolve
<1>3. CASE m.foreground # NoActivity /\ ~ShouldActivate(m.foreground, a)
  <2>1. Good(Insert(m, a, "PENDING"))
    BY DEF Good, Managers, OneActive, InOrder, Statuses, Insert
  <2> QED BY <1>3, <2>1 DEF Resolve
<1> QED BY <1>1, <1>2, <1>3

LEMMA HandleEventIsGood ==
  ASSUME NEW m, Good(m), NEW a \in Activity
  PROVE  Good(HandleEvent(m, a))
  BY ResolveIsGood DEF HandleEvent

LEMMA PrepareUserInputIsGood ==
  ASSUME NEW m, Good(m), NEW a \in Activity
  PROVE  Good(PrepareUserInput(m, a))
<1>1. CASE m.status[a] = "ABSENT" /\ m.foreground # NoActivity
           /\ kindOf[m.foreground] = "autonomous"
  <2>1. m.foreground \in Activity BY <1>1 DEF Good, Managers
  <2> QED BY <1>1, <2>1, TakeOverIsGood DEF PrepareUserInput
<1> QED BY <1>1 DEF PrepareUserInput

\* An Activity of a manager is ended with status s and leaves the foreground.
LEMMA EndIsGood ==
  ASSUME NEW m, Good(m), NEW a \in Activity, m.status[a] # "ABSENT", NEW s \in Terminal
  PROVE  /\ Good(Clear(WithStatus(m, a, s), a))
         /\ m.foreground = a => Clear(WithStatus(m, a, s), a).foreground = NoActivity
<1> DEFINE w == WithStatus(m, a, s)
<1>1. w \in Managers /\ InOrder(w) /\ w.foreground = m.foreground
      /\ \A b \in Activity : w.status[b] = "ACTIVE" <=> m.status[b] = "ACTIVE" /\ b # a
  BY DEF Good, Managers, OneActive, InOrder, Statuses, Terminal, WithStatus
<1>2. Good(Clear(w, a))
  BY <1>1, NoActivityAssumption DEF Good, Managers, OneActive, InOrder, Statuses, Clear
<1>3. m.foreground = a => Clear(w, a).foreground = NoActivity
  BY <1>1 DEF Clear, Managers
<1> QED BY <1>2, <1>3

LEMMA CancelIsGood ==
  ASSUME NEW m, Good(m), NEW a \in Activity
  PROVE  Good(Cancel(m, a))
  BY EndIsGood DEF Cancel, Terminal

LEMMA CompleteIsGood ==
  ASSUME NEW m, Good(m), NEW a \in Activity
  PROVE  Good(Complete(m, a))
  BY EndIsGood DEF Complete, Terminal

LEMMA DiscardDeferredIsGood ==
  ASSUME NEW m, Good(m)
  PROVE  Good(DiscardDeferred(m)) /\ DiscardDeferred(m).foreground = m.foreground
  BY DEF Good, Managers, OneActive, InOrder, Statuses, DiscardDeferred, Deferred

LEMMA ResumeIsGood ==
  ASSUME NEW m, Good(m), m.foreground = NoActivity, NEW n \in ResumeNextPending(m)
  PROVE  Good(n)
<1>1. CASE n = m BY <1>1
<1>2. CASE \E a \in NextPending(m) : n = Activate(m, a)
  <2>1. PICK a \in NextPending(m) : n = Activate(m, a) BY <1>2
  <2>2. a \in Activity /\ m.status[a] = "PENDING" BY DEF NextPending
  <2>3. \A b \in Activity : m.status[b] # "ACTIVE"
    BY NoActivityAssumption DEF Good, OneActive
  <2> QED BY <2>1, <2>2, <2>3, ActivateIsGood DEF Good
<1> QED BY <1>1, <1>2 DEF ResumeNextPending

LEMMA CompleteProcessedIsGood ==
  ASSUME NEW m, Good(m), NEW a \in Activity, m.status[a] # "ABSENT",
         NEW n \in CompleteProcessed(m, a)
  PROVE  Good(n)
<1> DEFINE d == IF kindOf[a] = "conversation" /\ m.status[a] # "ABSENT"
                THEN DiscardDeferred(m) ELSE m
           c == Complete(d, a)
<1>1. Good(d) /\ d.foreground = m.foreground BY DiscardDeferredIsGood
<1>2. d.status[a] # "ABSENT"
  BY DEF DiscardDeferred, Deferred, Good, Managers
<1>3. Good(c) /\ (m.foreground = a => c.foreground = NoActivity)
  BY <1>1, <1>2, EndIsGood DEF Complete, Terminal
<1>4. n \in IF m.foreground = a THEN ResumeNextPending(c) ELSE {c}
  BY DEF CompleteProcessed
<1> QED BY <1>3, <1>4, ResumeIsGood

-----------------------------------------------------------------------------
(***************************************************************************)
(* The five things an operation can do to a manager m, turning it into n.  *)
(* Every action property of ActivityManager follows from these alone.      *)
(***************************************************************************)

\* a is new and leaves every other Activity as it is.
Enters(m, n, a) ==
    /\ m.status[a] = "ABSENT"
    /\ \A b \in Activity : b # a => n.status[b] = m.status[b]
    /\ \/ m.foreground = NoActivity /\ n.foreground = a /\ n.status[a] = "ACTIVE"
       \/ m.foreground # NoActivity /\ n.foreground = m.foreground /\ n.status[a] = "PENDING"

\* a is new and the foreground is set aside for it.
TakesOver(m, n, a) ==
    /\ m.status[a] = "ABSENT" /\ n.status[a] = "ACTIVE" /\ n.foreground = a
    /\ m.foreground \in Activity /\ m.foreground # a
    /\ m.status[m.foreground] = "ACTIVE" /\ n.status[m.foreground] = "SUSPENDED"
    /\ Interruptible(m.foreground) /\ Priority(a) > Priority(m.foreground)
    /\ \A b \in Activity : b # a /\ b # m.foreground => n.status[b] = m.status[b]

\* a is cancelled.
Cancels(m, n, a) ==
    /\ m.status[a] \notin Terminal /\ n.status[a] = "CANCELED"
    /\ \A b \in Activity : b # a => n.status[b] = m.status[b]
    /\ n.foreground = IF m.foreground = a THEN NoActivity ELSE m.foreground

\* Deferred talk is cancelled.
Discards(m, n) ==
    /\ \A b \in Activity : n.status[b] = IF b \in Deferred(m) THEN "CANCELED" ELSE m.status[b]
    /\ n.foreground = m.foreground

\* a completes, deferred talk is cancelled if a was a conversation, and r gets
\* the floor if a had it: the first of what still waits, if anything does.
Completes(m, n, a, r) ==
    /\ n.status[a] = "COMPLETED" /\ r # a
    /\ \A b \in Activity : b # a /\ b # r =>
           n.status[b] = IF kindOf[a] = "conversation" /\ b \in Deferred(m)
                         THEN "CANCELED" ELSE m.status[b]
    /\ n.foreground = IF m.foreground = a THEN r ELSE m.foreground
    /\ r = NoActivity /\ m.foreground = a => \A b \in Activity : n.status[b] # "PENDING"
    /\ r # NoActivity =>
          /\ m.foreground = a /\ m.status[r] = "PENDING" /\ n.status[r] = "ACTIVE"
          /\ kindOf[a] = "conversation" => r \notin Deferred(m)
          /\ \A b \in Activity : b # r /\ n.status[b] = "PENDING" =>
                 \/ Priority(r) > Priority(b)
                 \/ Priority(r) = Priority(b) /\ m.arrival[r] <= m.arrival[b]

LEMMA TakeOverEffect ==
  ASSUME NEW m, Good(m), NEW a \in Activity, m.status[a] = "ABSENT", m.foreground \in Activity,
         Interruptible(m.foreground), Priority(a) > Priority(m.foreground)
  PROVE  TakesOver(m, Activate(Insert(WithStatus(m, m.foreground, "SUSPENDED"), a, "ACTIVE"), a), a)
<1> DEFINE s == WithStatus(m, m.foreground, "SUSPENDED")
           i == Insert(s, a, "ACTIVE")
           n == Activate(i, a)
<1>1. m.foreground # a /\ m.status[m.foreground] = "ACTIVE" BY DEF Good, OneActive
<1>2. s.status = [m.status EXCEPT ![m.foreground] = "SUSPENDED"]
  BY DEF WithStatus, Good, Managers
<1>3. i.status = [s.status EXCEPT ![a] = "ACTIVE"]
      /\ i = [status |-> i.status, foreground |-> i.foreground,
              arrival |-> i.arrival, count |-> i.count] BY DEF Insert
<1>4. n.status = [i.status EXCEPT ![a] = "ACTIVE"] /\ n.foreground = a
  BY <1>3 DEF Activate
<1>5. m.status \in [Activity -> Statuses] BY DEF Good, Managers
<1> QED BY <1>1, <1>2, <1>3, <1>4, <1>5 DEF TakesOver

LEMMA ResolveEffect ==
  ASSUME NEW m, Good(m), NEW a \in Activity, m.status[a] = "ABSENT"
  PROVE  Enters(m, Resolve(m, a), a) \/ TakesOver(m, Resolve(m, a), a)
<1>0. m.status \in [Activity -> Statuses] BY DEF Good, Managers
<1>1. CASE m.foreground = NoActivity
  <2> DEFINE i == Insert(m, a, "ACTIVE")
  <2>1. i.status = [m.status EXCEPT ![a] = "ACTIVE"]
        /\ i = [status |-> i.status, foreground |-> i.foreground,
                arrival |-> i.arrival, count |-> i.count] BY DEF Insert
  <2>2. Resolve(m, a) = Activate(i, a) BY <1>1 DEF Resolve
  <2>3. Activate(i, a).status = [i.status EXCEPT ![a] = "ACTIVE"]
        /\ Activate(i, a).foreground = a
    BY <2>1 DEF Activate
  <2> QED BY <1>0, <1>1, <2>1, <2>2, <2>3 DEF Enters
<1>2. CASE m.foreground # NoActivity /\ ShouldActivate(m.foreground, a)
  <2>1. m.foreground \in Activity BY <1>2 DEF Good, Managers
  <2> QED BY <1>2, <2>1, TakeOverEffect DEF ShouldActivate, Resolve
<1>3. CASE m.foreground # NoActivity /\ ~ShouldActivate(m.foreground, a)
  <2>1. Resolve(m, a) = Insert(m, a, "PENDING") BY <1>3 DEF Resolve
  <2> QED BY <1>0, <1>3, <2>1 DEF Insert, Enters
<1> QED BY <1>1, <1>2, <1>3

LEMMA PrepareEffect ==
  ASSUME NEW m, Good(m), NEW a \in Activity, kindOf[a] = "conversation"
  PROVE  PrepareUserInput(m, a) = m \/ TakesOver(m, PrepareUserInput(m, a), a)
<1>1. CASE m.status[a] = "ABSENT" /\ m.foreground # NoActivity
           /\ kindOf[m.foreground] = "autonomous"
  <2>1. m.foreground \in Activity BY <1>1 DEF Good, Managers
  <2>2. Interruptible(m.foreground) BY <1>1 DEF Interruptible
  <2>3. Priority(a) = 150 /\ Priority(m.foreground) = 65 BY <1>1 DEF Priority
  <2> QED BY <1>1, <2>1, <2>2, <2>3, TakeOverEffect DEF PrepareUserInput
<1> QED BY <1>1 DEF PrepareUserInput

LEMMA CancelEffect ==
  ASSUME NEW m, Good(m), NEW a \in Activity
  PROVE  Cancel(m, a) = m \/ Cancels(m, Cancel(m, a), a)
<1> DEFINE w == WithStatus(m, a, "CANCELED")
<1>1. w \in Managers /\ w.status = [m.status EXCEPT ![a] = "CANCELED"]
      /\ w.foreground = m.foreground
  BY DEF WithStatus, Good, Managers, Statuses
<1>2. Clear(w, a).status = w.status
      /\ Clear(w, a).foreground = IF m.foreground = a THEN NoActivity ELSE m.foreground
  BY <1>1 DEF Clear, Managers
<1>3. m.status \in [Activity -> Statuses] BY DEF Good, Managers
<1> QED BY <1>1, <1>2, <1>3 DEF Cancel, Terminal, Cancels

LEMMA DiscardEffect ==
  ASSUME NEW m, Good(m)
  PROVE  Discards(m, DiscardDeferred(m)) /\ DiscardDeferred(m).arrival = m.arrival
  BY DEF Good, Managers, DiscardDeferred, Discards

LEMMA FinishEffect ==
  ASSUME NEW m, Good(m), NEW a \in Activity, m.status[a] # "ABSENT",
         NEW n \in CompleteProcessed(m, a)
  PROVE  \E r \in Activity \cup {NoActivity} : Completes(m, n, a, r)
<1> DEFINE d == IF kindOf[a] = "conversation" /\ m.status[a] # "ABSENT"
                THEN DiscardDeferred(m) ELSE m
           w == WithStatus(d, a, "COMPLETED")
           c == Complete(d, a)
<1>1. Good(d) /\ d.foreground = m.foreground /\ d.arrival = m.arrival
      /\ \A b \in Activity : d.status[b] = IF kindOf[a] = "conversation" /\ b \in Deferred(m)
                                           THEN "CANCELED" ELSE m.status[b]
  BY DiscardDeferredIsGood, DiscardEffect DEF Discards
<1>2. w \in Managers /\ w.status = [d.status EXCEPT ![a] = "COMPLETED"]
      /\ w.foreground = m.foreground /\ w.arrival = m.arrival
  BY <1>1 DEF WithStatus, Good, Managers, Statuses
<1>3. d.status[a] # "ABSENT" BY <1>1
<1>4. c = Clear(w, a) BY <1>3 DEF Complete
<1>5. c.status = w.status /\ c.arrival = m.arrival /\ c \in Managers
      /\ c.foreground = IF m.foreground = a THEN NoActivity ELSE m.foreground
  BY <1>2, <1>4 DEF Clear, Managers
<1>6. d.status \in [Activity -> Statuses] BY <1>1 DEF Good, Managers
<1>7. \A b \in Activity : c.status[b] = IF b = a THEN "COMPLETED" ELSE d.status[b]
  BY <1>2, <1>5, <1>6
<1>8. n \in IF m.foreground = a THEN ResumeNextPending(c) ELSE {c}
  BY DEF CompleteProcessed
<1>9. CASE n = c /\ (m.foreground = a => \A b \in Activity : c.status[b] # "PENDING")
  <2> WITNESS NoActivity \in Activity \cup {NoActivity}
  <2>1. NoActivity # a BY NoActivityAssumption
  <2> QED BY <1>1, <1>5, <1>7, <1>9, <2>1 DEF Completes
<1>10. CASE m.foreground = a /\ \E r \in NextPending(c) : n = Activate(c, r)
  <2>1. PICK r \in NextPending(c) : n = Activate(c, r) BY <1>10
  <2>2. r \in Activity /\ c.status[r] = "PENDING" /\ r # a /\ r # NoActivity
    BY <1>7, NoActivityAssumption DEF NextPending
  <2>3. n.status = [c.status EXCEPT ![r] = "ACTIVE"] /\ n.foreground = r
    BY <2>1, <1>5 DEF Activate, Managers
  <2>4. \A b \in Activity : n.status[b] = IF b = r THEN "ACTIVE" ELSE c.status[b]
    BY <2>3, <1>5 DEF Managers
  <2>5. d.status[r] = "PENDING" BY <2>2, <1>7
  <2>6. m.status[r] = "PENDING" /\ (kindOf[a] = "conversation" => r \notin Deferred(m))
    BY <2>2, <2>5, <1>1
  <2>7. \A b \in Activity : c.status[b] = "PENDING" =>
              \/ Priority(r) > Priority(b)
              \/ Priority(r) = Priority(b) /\ m.arrival[r] <= m.arrival[b]
    BY <2>1, <1>5 DEF NextPending
  <2> r \in Activity BY <2>2
  <2> WITNESS r \in Activity \cup {NoActivity}
  <2> QED BY <1>1, <1>7, <1>10, <2>2, <2>3, <2>4, <2>6, <2>7 DEF Completes
<1> QED BY <1>8, <1>9, <1>10 DEF ResumeNextPending

\* Every step does one of the five things, or nothing.
Effect(m, n) ==
    \/ n = m
    \/ Discards(m, n)
    \/ \E a \in Activity :
          \/ Enters(m, n, a) \/ TakesOver(m, n, a) \/ Cancels(m, n, a)
          \/ \E r \in Activity \cup {NoActivity} : Completes(m, n, a, r)

-----------------------------------------------------------------------------
\* The inductive invariant.  OneActive alone is not inductive without the
\* types; InOrder is what ResumesInOrder needs.
ManagerInv == Good(mgr)

-----------------------------------------------------------------------------
LEMMA ManagerStepKeeps == ManagerInv /\ [ManagerNext]_mgr => ManagerInv'
<1> SUFFICES ASSUME Good(mgr), [ManagerNext]_mgr PROVE Good(mgr')
  BY DEF ManagerInv
<1>1. ASSUME NEW a \in Activity, Handle(a) PROVE Good(mgr')
  BY <1>1, HandleEventIsGood DEF Handle
<1>2. ASSUME NEW a \in Activity, Prepare(a) PROVE Good(mgr')
  BY <1>2, PrepareUserInputIsGood DEF Prepare
<1>3. ASSUME NEW a \in Activity, Register(a) PROVE Good(mgr')
  BY <1>3, ResolveIsGood DEF Register
<1>4. ASSUME NEW a \in Activity, Finish(a) PROVE Good(mgr')
  BY <1>4, CompleteProcessedIsGood DEF Finish
<1>5. ASSUME NEW a \in Activity, CancelActivity(a) PROVE Good(mgr')
  BY <1>5, CancelIsGood DEF CancelActivity
<1>6. CASE Discard
  BY <1>6, DiscardDeferredIsGood DEF Discard
<1>7. CASE FinishForeground
  <2>1. mgr.foreground \in Activity BY <1>7 DEF FinishForeground, Good, Managers
  <2> QED BY <1>4, <1>7, <2>1 DEF FinishForeground
<1>8. CASE UNCHANGED mgr BY <1>8
<1> QED BY <1>1, <1>2, <1>3, <1>4, <1>5, <1>6, <1>7, <1>8 DEF ManagerNext

\* Every manager the program can reach is well formed, one Activity has the
\* floor, and the dict is in insertion order.
THEOREM ManagerInvariant == ManagerSpec => []ManagerInv
<1>1. ManagerInit => ManagerInv BY EmptyIsGood DEF ManagerInit, ManagerInv
<1> QED BY <1>1, ManagerStepKeeps, PTL DEF ManagerSpec

\* The manager's state always has its type.
THEOREM ManagerTypeCorrect == ManagerSpec => []ManagerTypeOK
<1>1. ManagerInv => ManagerTypeOK BY DEF ManagerInv, Good, ManagerTypeOK
<1> QED BY <1>1, ManagerInvariant, PTL

\* The foreground is ACTIVE and nothing else is, whoever calls the manager.
THEOREM ForegroundCorrect == ManagerSpec => []ForegroundIsTheActive
<1>1. ManagerInv => ForegroundIsTheActive BY DEF ManagerInv, Good, OneActive, ForegroundIsTheActive
<1> QED BY <1>1, ManagerInvariant, PTL

-----------------------------------------------------------------------------
LEMMA ManagerStepEffect == ManagerInv /\ [ManagerNext]_mgr => Effect(mgr, mgr')
<1> SUFFICES ASSUME Good(mgr), [ManagerNext]_mgr PROVE Effect(mgr, mgr')
  BY DEF ManagerInv
<1>1. ASSUME NEW a \in Activity, Handle(a) PROVE Effect(mgr, mgr')
  BY <1>1, ResolveEffect DEF Handle, HandleEvent, Effect
<1>2. ASSUME NEW a \in Activity, Prepare(a) PROVE Effect(mgr, mgr')
  BY <1>2, PrepareEffect DEF Prepare, Effect
<1>3. ASSUME NEW a \in Activity, Register(a) PROVE Effect(mgr, mgr')
  BY <1>3, ResolveEffect DEF Register, Effect
<1>4. ASSUME NEW a \in Activity, Finish(a) PROVE Effect(mgr, mgr')
  BY <1>4, FinishEffect DEF Finish, Effect
<1>5. ASSUME NEW a \in Activity, CancelActivity(a) PROVE Effect(mgr, mgr')
  BY <1>5, CancelEffect DEF CancelActivity, Effect
<1>6. CASE Discard BY <1>6, DiscardEffect DEF Discard, Effect
<1>7. CASE FinishForeground
  <2>1. mgr.foreground \in Activity BY <1>7 DEF FinishForeground, Good, Managers
  <2> QED BY <1>4, <1>7, <2>1 DEF FinishForeground
<1>8. CASE UNCHANGED mgr BY <1>8 DEF Effect
<1> QED BY <1>1, <1>2, <1>3, <1>4, <1>5, <1>6, <1>7, <1>8 DEF ManagerNext

-----------------------------------------------------------------------------
\* A COMPLETED, CANCELED or SUSPENDED Activity never comes back
\* (every operation of the manager).
THEOREM NeverRevivedCorrect == ManagerSpec => NeverRevived
<1> DEFINE P == \A a \in Activity :
        /\ mgr.status[a] = "COMPLETED" => mgr'.status[a] = "COMPLETED"
        /\ mgr.status[a] = "CANCELED"  => mgr'.status[a] \in Terminal
        /\ mgr.status[a] = "SUSPENDED" => mgr'.status[a] \in Terminal \cup {"SUSPENDED"}
<1>1. Effect(mgr, mgr') => P
  <2>1. CASE Discards(mgr, mgr') BY <2>1 DEF Discards, Deferred, Terminal
  <2>2. ASSUME NEW b \in Activity, Enters(mgr, mgr', b) \/ TakesOver(mgr, mgr', b) PROVE P
    BY <2>2 DEF Enters, TakesOver, Terminal
  <2>3. ASSUME NEW b \in Activity, Cancels(mgr, mgr', b) PROVE P
    BY <2>3 DEF Cancels, Terminal
  <2>4. ASSUME NEW b \in Activity, NEW r \in Activity \cup {NoActivity},
               Completes(mgr, mgr', b, r) PROVE P
    BY <2>4, NoActivityAssumption DEF Completes, Deferred, Terminal
  <2>5. CASE mgr' = mgr BY <2>5 DEF Terminal
  <2> QED BY <2>1, <2>2, <2>3, <2>4, <2>5 DEF Effect
<1>2. ManagerInv /\ [ManagerNext]_mgr => [P]_mgr BY <1>1, ManagerStepEffect
<1> QED BY <1>2, ManagerInvariant, PTL DEF ManagerSpec, NeverRevived

\* A foreground that is not interruptible keeps the floor until it is over,
\* and an interruptible one yields to a higher priority only
\* (_should_activate and prepare_user_input).
THEOREM FloorIsKeptCorrect == ManagerSpec => FloorIsKept
<1> DEFINE P == \A a \in Activity :
        (mgr.foreground = a /\ mgr'.foreground # a /\ mgr'.status[a] \notin Terminal) =>
        /\ Interruptible(a)
        /\ mgr'.foreground \in Activity
        /\ Priority(mgr'.foreground) > Priority(a)
<1>1. Effect(mgr, mgr') => P
  BY NoActivityAssumption DEF Effect, Enters, TakesOver, Cancels, Discards, Completes, Terminal
<1>2. ManagerInv /\ [ManagerNext]_mgr => [P]_mgr BY <1>1, ManagerStepEffect
<1> QED BY <1>2, ManagerInvariant, PTL DEF ManagerSpec, FloorIsKept

\* Only a cancellation of the foreground leaves pending Activities without one
\* (cancel_activity against complete_processed_activity).
THEOREM OnlyCancellationStrandsCorrect == ManagerSpec => OnlyCancellationStrands
<1> DEFINE P == (~Unattended(mgr) /\ Unattended(mgr')) =>
        /\ mgr.foreground \in Activity
        /\ mgr'.status[mgr.foreground] = "CANCELED"
<1>1. Effect(mgr, mgr') => P
  BY NoActivityAssumption DEF Effect, Enters, TakesOver, Cancels, Discards, Completes,
     Unattended, Waiting, Deferred
<1>2. ManagerInv /\ [ManagerNext]_mgr => [P]_mgr BY <1>1, ManagerStepEffect
<1> QED BY <1>2, ManagerInvariant, PTL DEF ManagerSpec, OnlyCancellationStrands

\* No pending Activity is passed over by one of lower priority or one that
\* came later (resume_next_pending over the insertion order of the dict).
THEOREM ResumesInOrderCorrect == ManagerSpec => ResumesInOrder
<1> DEFINE P == \A a, b \in Activity :
        (/\ mgr.status[a] = "PENDING" /\ mgr'.status[a] = "ACTIVE"
         /\ mgr.status[b] = "PENDING" /\ mgr'.status[b] = "PENDING")
        => \/ Priority(a) > Priority(b)
           \/ Priority(a) = Priority(b) /\ mgr.arrival[a] < mgr.arrival[b]
<1>1. ManagerInv /\ Effect(mgr, mgr') => P
  <2> SUFFICES ASSUME Good(mgr), Effect(mgr, mgr'), NEW a \in Activity, NEW b \in Activity,
                      mgr.status[a] = "PENDING", mgr'.status[a] = "ACTIVE",
                      mgr.status[b] = "PENDING", mgr'.status[b] = "PENDING"
               PROVE  \/ Priority(a) > Priority(b)
                      \/ Priority(a) = Priority(b) /\ mgr.arrival[a] < mgr.arrival[b]
    BY DEF ManagerInv
  <2>1. PICK c \in Activity, r \in Activity \cup {NoActivity} : Completes(mgr, mgr', c, r)
    BY DEF Effect, Enters, TakesOver, Cancels, Discards, Deferred
  <2>2. a = r BY <2>1 DEF Completes
  <2>3. \/ Priority(a) > Priority(b)
        \/ Priority(a) = Priority(b) /\ mgr.arrival[a] <= mgr.arrival[b]
    BY <2>1, <2>2, NoActivityAssumption DEF Completes
  <2>4. mgr.arrival[a] # mgr.arrival[b] /\ mgr.arrival[a] \in Nat /\ mgr.arrival[b] \in Nat
    BY DEF Good, InOrder, Managers
  <2> QED BY <2>3, <2>4
<1>2. ManagerInv /\ [ManagerNext]_mgr => [P]_mgr BY <1>1, ManagerStepEffect
<1> QED BY <1>2, ManagerInvariant, PTL DEF ManagerSpec, ResumesInOrder

\* A completed conversation leaves no deferred talk behind
\* (complete_processed_activity's discard before its resume).
THEOREM ConversationEndsDeferredCorrect == ManagerSpec => ConversationEndsDeferred
<1> DEFINE P == \A a \in Activity :
        (/\ kindOf[a] = "conversation"
         /\ mgr.status[a] # "COMPLETED" /\ mgr'.status[a] = "COMPLETED")
        => \A b \in Activity : kindOf[b] = "autonomous"
               => mgr'.status[b] \notin {"PENDING", "SUSPENDED"}
<1>1. Effect(mgr, mgr') => P
  <2> SUFFICES ASSUME Effect(mgr, mgr'), NEW a \in Activity, kindOf[a] = "conversation",
                      mgr.status[a] # "COMPLETED", mgr'.status[a] = "COMPLETED",
                      NEW b \in Activity, kindOf[b] = "autonomous"
               PROVE  mgr'.status[b] \notin {"PENDING", "SUSPENDED"}
    OBVIOUS
  <2>1. PICK c \in Activity, r \in Activity \cup {NoActivity} : Completes(mgr, mgr', c, r)
    BY DEF Effect, Enters, TakesOver, Cancels, Discards
  <2>2. a = c BY <2>1, NoActivityAssumption DEF Completes, Deferred
  <2> QED BY <2>1, <2>2, NoActivityAssumption DEF Completes, Deferred
<1>2. ManagerInv /\ [ManagerNext]_mgr => [P]_mgr BY <1>1, ManagerStepEffect
<1> QED BY <1>2, ManagerInvariant, PTL DEF ManagerSpec, ConversationEndsDeferred
=============================================================================
