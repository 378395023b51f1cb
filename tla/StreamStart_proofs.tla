--------------------------- MODULE StreamStart_proofs ---------------------------
(***************************************************************************)
(* Theorems about StreamStart, for any number of sessions, commands and    *)
(* attempts.                                                               *)
(*                                                                         *)
(* The usecases share no lock.  The inductive invariant says what protects *)
(* a session instead: while a task owns it, its status is one that no      *)
(* other action starts from (Owned), and a segment is spoken by the one    *)
(* task that made it SPEAKING (Spoken, Ordered).  That there is one active *)
(* session needs the version of a preparation that waits (Single).         *)
(***************************************************************************)
EXTENDS StreamStart, FiniteSetTheorems, TLAPS

\* Where a task is that neither owns its session nor speaks.
Resting == {"new", "queued", "accepted", "sawOpening", "sawMain", "done"}

SegmentType == [status : {"none", "SPEAKING", "COMPLETED", "FAILED"}, attempt : Nat]

Types ==
    /\ status \in [Sessions -> Statuses \cup {"none"}]
    /\ version \in [Sessions -> Nat]
    /\ opening \in [Sessions -> SegmentType] /\ main \in [Sessions -> SegmentType]
    /\ pc \in [Commands -> Resting \cup Checks \cup Steps \cup Speeches]
    /\ target \in [Commands -> Nat] /\ known \in [Commands -> Nat]
    /\ \A c \in Commands : pc[c] # "new" => target[c] \in Sessions
    /\ \A c \in Commands : pc[c] \in Checks => c \in Prepares
    /\ \A c \in Commands : pc[c] \in Steps => c \in Starts

\* approve_start lets one task at a time begin.
OneStart ==
    \A c, d \in Starts : pc[c] \notin {"new", "done"} /\ pc[d] \notin {"new", "done"} => c = d

\* Who owns a session, and which sessions are owned.
Owned ==
    /\ \A p \in Prepares : pc[p] \in Checks <=> lock = p
    /\ \A c \in Commands :
          /\ pc[c] \in Checks => status[target[c]] = "PREPARING"
          /\ pc[c] \in Steps => status[target[c]] = "STARTING"
          /\ pc[c] \in Checks \cup Steps => known[c] = version[target[c]]
    /\ \A s \in Sessions :
          /\ status[s] = "PREPARING" => \E c \in Commands : target[c] = s /\ pc[c] \in Checks
          /\ status[s] = "STARTING" => \E c \in Commands : target[c] = s /\ pc[c] \in Steps

\* Who speaks a segment, and which segments are spoken.
Spoken ==
    /\ \A c \in Commands :
          /\ pc[c] = "opening" => opening[target[c]].status = "SPEAKING"
          /\ pc[c] = "main" => main[target[c]].status = "SPEAKING"
    /\ \A s \in Sessions :
          /\ opening[s].status = "SPEAKING" => \E c \in Commands : target[c] = s /\ pc[c] = "opening"
          /\ main[s].status = "SPEAKING" => \E c \in Commands : target[c] = s /\ pc[c] = "main"
    /\ \A c, d \in Commands :
          pc[c] \in Speeches /\ pc[c] = pc[d] /\ target[c] = target[d] => c = d

\* The opening comes first, and not before the session is LIVE.
Ordered ==
    \A s \in Sessions :
        /\ main[s].status # "none" => opening[s].status = "COMPLETED"
        /\ opening[s].status # "none" => status[s] \in {"LIVE", "ENDING", "ENDED"}

IInv == Types /\ OneStart /\ Owned /\ Spoken /\ Ordered

\* A preparation that waits and has the session's version was given an active one.
Single ==
    /\ \A s, t \in Mine : s = t
    /\ \A p \in Prepares : pc[p] = "queued" =>
          /\ known[p] <= version[target[p]]
          /\ known[p] = version[target[p]] => status[target[p]] \in Active

-----------------------------------------------------------------------------
LEMMA CommandsApart ==
  /\ Prepares \subseteq Commands /\ Starts \subseteq Commands /\ Retries \subseteq Commands
  /\ \A c \in Commands : c \in Prepares \/ c \in Starts \/ c \in Retries
  /\ \A c \in Prepares : c \notin Starts /\ c \notin Retries
  /\ \A c \in Starts : c \notin Retries
  /\ NoPrepare \notin Prepares
  BY StartAssumption DEF Commands

LEMMA PlacesApart ==
  /\ \A x \in Checks : x \notin Steps /\ x \notin Speeches /\ x \notin Resting
  /\ \A x \in Steps : x \notin Speeches /\ x \notin Resting
  /\ \A x \in Speeches : x \notin Resting
  /\ "opening" \in Speeches /\ "main" \in Speeches
  /\ \A x \in Speeches : x = "opening" \/ x = "main"
  BY DEF Checks, Steps, Speeches, Resting

\* A task goes on, and the others stay.
LEMMA OneGoes ==
  ASSUME IInv, NEW c \in Commands, NEW step, Goto(c, step)
  PROVE  pc'[c] = step /\ \A d \in Commands : d # c => pc'[d] = pc[d]
  BY DEF Goto, IInv, Types

\* A session is saved, and the others stay.
LEMMA OneSaved ==
  ASSUME IInv, NEW s \in Sessions, NEW st \in Statuses, NEW n \in Nat, Save(s, st, n)
  PROVE  /\ status' \in [Sessions -> Statuses \cup {"none"}] /\ version' \in [Sessions -> Nat]
         /\ status'[s] = st /\ version'[s] = version[s] + n
         /\ \A t \in Sessions : t # s => status'[t] = status[t] /\ version'[t] = version[t]
<1>1. status \in [Sessions -> Statuses \cup {"none"}] /\ version \in [Sessions -> Nat]
  BY DEF IInv, Types
<1>2. version[s] + n \in Nat
  BY <1>1
<1> QED BY <1>1, <1>2 DEF Save

-----------------------------------------------------------------------------
\* What a step must leave alone for each part of the invariant to stay true.

LEMMA OneStartKept ==
  ASSUME IInv,
         \A c \in Starts : pc'[c] \notin {"new", "done"} => pc[c] \notin {"new", "done"}
  PROVE  OneStart'
  BY DEF IInv, OneStart

LEMMA OwnedKept ==
  ASSUME IInv, lock' = lock,
         \A c \in Commands :
            /\ pc'[c] \in Checks <=> pc[c] \in Checks
            /\ pc'[c] \in Steps <=> pc[c] \in Steps
            /\ pc[c] \in Checks \cup Steps => target'[c] = target[c] /\ known'[c] = known[c],
         \A s \in Sessions :
            \/ status'[s] = status[s] /\ version'[s] = version[s]
            \/ status[s] \notin {"PREPARING", "STARTING"} /\ status'[s] \notin {"PREPARING", "STARTING"}
  PROVE  Owned'
<1>1. \A c \in Commands : pc[c] \in Checks \cup Steps =>
          /\ target[c] \in Sessions
          /\ status[target[c]] \in {"PREPARING", "STARTING"}
  <2>1. \A c \in Commands : pc[c] \in Checks \cup Steps => pc[c] # "new"
    BY DEF Checks, Steps
  <2> QED BY <2>1 DEF IInv, Types, Owned
<1>2. \A p \in Prepares : pc'[p] \in Checks <=> lock' = p
  BY CommandsApart DEF IInv, Owned
<1>3. ASSUME NEW c \in Commands
      PROVE  /\ pc'[c] \in Checks => status'[target'[c]] = "PREPARING"
             /\ pc'[c] \in Steps => status'[target'[c]] = "STARTING"
             /\ pc'[c] \in Checks \cup Steps => known'[c] = version'[target'[c]]
  BY <1>1 DEF IInv, Owned
<1>4. ASSUME NEW s \in Sessions
      PROVE  /\ status'[s] = "PREPARING" => \E c \in Commands : target'[c] = s /\ pc'[c] \in Checks
             /\ status'[s] = "STARTING" => \E c \in Commands : target'[c] = s /\ pc'[c] \in Steps
  <2>1. CASE status'[s] = "PREPARING"
    <3>1. status[s] = "PREPARING"
      BY <2>1
    <3>2. PICK c \in Commands : target[c] = s /\ pc[c] \in Checks
      BY <3>1 DEF IInv, Owned
    <3> QED BY <2>1, <3>2
  <2>2. CASE status'[s] = "STARTING"
    <3>1. status[s] = "STARTING"
      BY <2>2
    <3>2. PICK c \in Commands : target[c] = s /\ pc[c] \in Steps
      BY <3>1 DEF IInv, Owned
    <3> QED BY <2>2, <3>2
  <2> QED BY <2>1, <2>2
<1> QED BY <1>2, <1>3, <1>4 DEF Owned

LEMMA SpokenKept ==
  ASSUME IInv, UNCHANGED <<opening, main>>,
         \A c \in Commands : pc[c] \in Speeches \/ pc'[c] \in Speeches =>
            pc'[c] = pc[c] /\ target'[c] = target[c]
  PROVE  Spoken'
<1>1. ASSUME NEW c \in Commands
      PROVE  /\ pc'[c] = "opening" => opening'[target'[c]].status = "SPEAKING"
             /\ pc'[c] = "main" => main'[target'[c]].status = "SPEAKING"
  BY PlacesApart DEF IInv, Spoken
<1>2. ASSUME NEW s \in Sessions, opening'[s].status = "SPEAKING"
      PROVE  \E c \in Commands : target'[c] = s /\ pc'[c] = "opening"
  <2>1. PICK c \in Commands : target[c] = s /\ pc[c] = "opening"
    BY <1>2 DEF IInv, Spoken
  <2> QED BY <2>1, PlacesApart
<1>3. ASSUME NEW s \in Sessions, main'[s].status = "SPEAKING"
      PROVE  \E c \in Commands : target'[c] = s /\ pc'[c] = "main"
  <2>1. PICK c \in Commands : target[c] = s /\ pc[c] = "main"
    BY <1>3 DEF IInv, Spoken
  <2> QED BY <2>1, PlacesApart
<1>4. \A c, d \in Commands :
          pc'[c] \in Speeches /\ pc'[c] = pc'[d] /\ target'[c] = target'[d] => c = d
  BY DEF IInv, Spoken
<1> QED BY <1>1, <1>2, <1>3, <1>4 DEF Spoken

Begun == {"LIVE", "ENDING", "ENDED"}

LEMMA OrderedKept ==
  ASSUME IInv, UNCHANGED <<opening, main>>,
         \A s \in Sessions : status[s] \in Begun => status'[s] \in Begun
  PROVE  Ordered'
  BY DEF IInv, Ordered, Begun

Places == Resting \cup Checks \cup Steps \cup Speeches

LEMMA TypesKept ==
  ASSUME IInv, NEW c \in Commands, NEW step \in Places, Goto(c, step),
         step \in Checks => c \in Prepares, step \in Steps => c \in Starts,
         NEW x \in Sessions, target' = [target EXCEPT ![c] = x],
         NEW n \in Nat, known' = [known EXCEPT ![c] = n],
         status' \in [Sessions -> Statuses \cup {"none"}], version' \in [Sessions -> Nat],
         opening' \in [Sessions -> SegmentType], main' \in [Sessions -> SegmentType]
  PROVE  Types'
<1>1. /\ pc \in [Commands -> Places] /\ target \in [Commands -> Nat] /\ known \in [Commands -> Nat]
      /\ \A d \in Commands : pc[d] # "new" => target[d] \in Sessions
      /\ \A d \in Commands : pc[d] \in Checks => d \in Prepares
      /\ \A d \in Commands : pc[d] \in Steps => d \in Starts
  BY DEF IInv, Types, Places
<1>2. pc'[c] = step /\ \A d \in Commands : d # c => pc'[d] = pc[d]
  BY OneGoes
<1>3. x \in Nat
  BY DEF Sessions
<1>4. pc' \in [Commands -> Places] /\ target' \in [Commands -> Nat] /\ known' \in [Commands -> Nat]
  BY <1>1, <1>3 DEF Goto
<1>5. \A d \in Commands : pc'[d] # "new" => target'[d] \in Sessions
  BY <1>1, <1>2
<1>6. \A d \in Commands : (pc'[d] \in Checks => d \in Prepares) /\ (pc'[d] \in Steps => d \in Starts)
  BY <1>1, <1>2
<1> QED BY <1>4, <1>5, <1>6 DEF Types, Places

\* A task that has begun keeps its session, and its types.
LEMMA TypesKeptAtWork ==
  ASSUME IInv, NEW c \in Commands, pc[c] # "new", NEW step \in Places, Goto(c, step),
         step \in Checks => c \in Prepares, step \in Steps => c \in Starts,
         UNCHANGED <<target, known>>,
         status' \in [Sessions -> Statuses \cup {"none"}], version' \in [Sessions -> Nat],
         opening' \in [Sessions -> SegmentType], main' \in [Sessions -> SegmentType]
  PROVE  Types'
<1>1. /\ target[c] \in Sessions /\ target' = [target EXCEPT ![c] = target[c]]
      /\ known[c] \in Nat /\ known' = [known EXCEPT ![c] = known[c]]
  BY DEF IInv, Types
<1> QED BY <1>1, TypesKept

-----------------------------------------------------------------------------
\* Steps that change no session, segment or lock.

LEMMA StillKeeps ==
  ASSUME IInv, UNCHANGED <<sessionVars, opening, main, taskVars, lock>>
  PROVE  IInv'
<1>1. UNCHANGED <<status, version, opening, main, pc, target, known, lock>>
  BY DEF sessionVars, taskVars
<1>2. Types'
  BY <1>1 DEF IInv, Types
<1>3. OneStart'
  BY <1>1, OneStartKept
<1>4. Owned'
  BY <1>1, OwnedKept
<1>5. Spoken'
  BY <1>1, SpokenKept
<1>6. Ordered'
  BY <1>1, OrderedKept
<1> QED BY <1>2, <1>3, <1>4, <1>5, <1>6 DEF IInv

\* An owner goes on with its checks or its steps.
LEMMA StaysKeeps ==
  ASSUME IInv, NEW c \in Commands, NEW step, Goto(c, step),
         \/ pc[c] \in Checks /\ step \in Checks
         \/ pc[c] \in Steps /\ step \in Steps,
         UNCHANGED <<sessionVars, opening, main, target, known, lock>>
  PROVE  IInv'
<1>1. UNCHANGED <<status, version, opening, main, target, known, lock>>
  BY DEF sessionVars
<1>2. pc'[c] = step /\ \A d \in Commands : d # c => pc'[d] = pc[d]
  BY OneGoes
<1>3. pc[c] \notin {"new", "done"}
  BY DEF Checks, Steps
<1>4. Types'
  <2>1. step \in Places /\ (step \in Checks => c \in Prepares) /\ (step \in Steps => c \in Starts)
    BY PlacesApart DEF IInv, Types, Places
  <2>2. /\ status' \in [Sessions -> Statuses \cup {"none"}] /\ version' \in [Sessions -> Nat]
        /\ opening' \in [Sessions -> SegmentType] /\ main' \in [Sessions -> SegmentType]
    BY <1>1 DEF IInv, Types
  <2> QED BY <1>1, <1>3, <2>1, <2>2, TypesKeptAtWork
<1>5. OneStart'
  BY <1>2, <1>3, CommandsApart, OneStartKept
<1>6. Owned'
  <2>1. \A d \in Commands : (pc'[d] \in Checks <=> pc[d] \in Checks) /\ (pc'[d] \in Steps <=> pc[d] \in Steps)
    BY <1>2, PlacesApart
  <2> QED BY <1>1, <2>1, OwnedKept
<1>7. Spoken'
  BY <1>1, <1>2, PlacesApart, SpokenKept
<1>8. Ordered'
  BY <1>1, OrderedKept
<1> QED BY <1>4, <1>5, <1>6, <1>7, <1>8 DEF IInv

\* A command arrives, or a task that waits ends without doing anything.
LEMMA RestKeeps ==
  ASSUME IInv, NEW c \in Commands, pc[c] \in Resting,
         NEW step \in Resting, Goto(c, step),
         \/ step = "done" \/ c \notin Starts
         \/ \A d \in Starts : pc[d] \in {"new", "done"},
         NEW x \in Sessions, target' = [target EXCEPT ![c] = x],
         NEW n \in Nat, known' = [known EXCEPT ![c] = n],
         status' \in [Sessions -> Statuses \cup {"none"}],
         \A s \in Sessions : status'[s] = status[s] \/ (status[s] = "none" /\ status'[s] = "CREATED"),
         UNCHANGED <<version, opening, main, lock>>
  PROVE  IInv'
<1>1. pc'[c] = step /\ \A d \in Commands : d # c => pc'[d] = pc[d] /\ target'[d] = target[d] /\ known'[d] = known[d]
  <2>1. \A d \in Commands : d # c => target'[d] = target[d] /\ known'[d] = known[d]
    BY DEF IInv, Types
  <2> QED BY <2>1, OneGoes
<1>2. Types'
  <2>1. step \in Places /\ step \notin Checks /\ step \notin Steps
    BY PlacesApart DEF Places
  <2>2. /\ version' \in [Sessions -> Nat]
        /\ opening' \in [Sessions -> SegmentType] /\ main' \in [Sessions -> SegmentType]
    BY DEF IInv, Types
  <2> QED BY <2>1, <2>2, TypesKept
<1>3. OneStart'
  BY <1>1, CommandsApart DEF IInv, OneStart
<1>4. Owned'
  <2>1. ASSUME NEW d \in Commands
        PROVE  /\ pc'[d] \in Checks <=> pc[d] \in Checks
               /\ pc'[d] \in Steps <=> pc[d] \in Steps
               /\ pc[d] \in Checks \cup Steps => target'[d] = target[d] /\ known'[d] = known[d]
    BY <1>1, PlacesApart
  <2> QED BY <2>1, OwnedKept
<1>5. Spoken'
  BY <1>1, PlacesApart, SpokenKept
<1>6. Ordered'
  BY OrderedKept DEF Begun
<1> QED BY <1>2, <1>3, <1>4, <1>5, <1>6 DEF IInv

-----------------------------------------------------------------------------
\* Steps that take a session, or give it back.

\* The end takes a session that nobody owns.
LEMMA EndKeeps ==
  ASSUME IInv, NEW s \in Sessions, EndBegins(s) \/ EndFinishes(s)
  PROVE  IInv'
<1>1. PICK st \in {"ENDING", "ENDED"}, n \in Nat : Save(s, st, n) /\ status[s] \in {"LIVE", "ENDING"}
  BY DEF EndBegins, EndFinishes
<1>2. UNCHANGED <<opening, main, pc, target, known, lock>>
  BY DEF EndBegins, EndFinishes, segmentVars, taskVars, lockVars
<1>3. /\ status' \in [Sessions -> Statuses \cup {"none"}] /\ version' \in [Sessions -> Nat]
      /\ status'[s] = st
      /\ \A t \in Sessions : t # s => status'[t] = status[t] /\ version'[t] = version[t]
  BY <1>1, OneSaved DEF Statuses
<1>4. Types'
  BY <1>2, <1>3 DEF IInv, Types
<1>5. OneStart'
  BY <1>2, OneStartKept
<1>6. Owned'
  BY <1>1, <1>2, <1>3, OwnedKept
<1>7. Spoken'
  BY <1>2, SpokenKept
<1>8. Ordered'
  BY <1>1, <1>2, <1>3, OrderedKept DEF Begun
<1> QED BY <1>4, <1>5, <1>6, <1>7, <1>8 DEF IInv

\* A session whose status is no owner's has none.
LEMMA NoOwner ==
  ASSUME IInv, NEW d \in Commands
  PROVE  /\ status[target[d]] # "PREPARING" => pc[d] \notin Checks
         /\ status[target[d]] # "STARTING" => pc[d] \notin Steps
  BY DEF IInv, Owned

\* A preparation takes the lock and its session.
LEMMA ClaimPrepareKeeps ==
  ASSUME IInv, NEW p \in Prepares, EnterPrepare(p), lock' = p
  PROVE  IInv'
<1>1. /\ pc[p] = "queued" /\ lock = NoPrepare /\ Preparable(p)
      /\ Save(target[p], "PREPARING", 1) /\ Goto(p, "signIn")
      /\ known' = [known EXCEPT ![p] = version[target[p]] + 1]
      /\ UNCHANGED <<opening, main, target>>
  BY CommandsApart DEF EnterPrepare, segmentVars, sessionVars
<1> DEFINE s == target[p]
<1>2. p \in Commands /\ s \in Sessions /\ p \notin Starts
  BY <1>1, CommandsApart DEF IInv, Types
<1>3. /\ status' \in [Sessions -> Statuses \cup {"none"}] /\ version' \in [Sessions -> Nat]
      /\ status'[s] = "PREPARING" /\ version'[s] = version[s] + 1
      /\ \A t \in Sessions : t # s => status'[t] = status[t] /\ version'[t] = version[t]
  BY <1>1, <1>2, OneSaved DEF Statuses
<1>4. status[s] \in {"CREATED", "READY", "FAILED"} /\ version[s] \in Nat
  BY <1>1, <1>2 DEF Preparable, IInv, Types
<1>5. /\ pc'[p] = "signIn" /\ known'[p] = version[s] + 1
      /\ \A d \in Commands : d # p => pc'[d] = pc[d] /\ known'[d] = known[d]
  <2>1. known'[p] = version[s] + 1 /\ \A d \in Commands : d # p => known'[d] = known[d]
    BY <1>1, <1>2 DEF IInv, Types
  <2> QED BY <1>1, <1>2, <2>1, OneGoes
<1>6. Types'
  <2>1. target' = [target EXCEPT ![p] = s] /\ version[s] + 1 \in Nat
    BY <1>1, <1>4 DEF IInv, Types
  <2>2. "signIn" \in Places /\ "signIn" \notin Steps
    BY DEF Places, Checks, Steps
  <2>3. opening' \in [Sessions -> SegmentType] /\ main' \in [Sessions -> SegmentType]
    BY <1>1 DEF IInv, Types
  <2> QED BY <1>1, <1>2, <1>3, <2>1, <2>2, <2>3, TypesKept
<1>7. OneStart'
  BY <1>2, <1>5, CommandsApart, OneStartKept
<1>8. "signIn" \in Checks /\ "signIn" \notin Steps /\ "queued" \notin Checks
  BY DEF Checks, Steps
<1>9. Owned'
  <2>1. \A q \in Prepares : pc'[q] \in Checks <=> lock' = q
    BY <1>1, <1>5, <1>8, CommandsApart DEF IInv, Owned
  <2>2. ASSUME NEW d \in Commands, pc'[d] \in Checks \cup Steps
        PROVE  /\ pc'[d] \in Checks => status'[target'[d]] = "PREPARING"
               /\ pc'[d] \in Steps => status'[target'[d]] = "STARTING"
               /\ known'[d] = version'[target'[d]]
    <3>1. CASE d = p
      BY <1>1, <1>3, <1>5, <1>8, <3>1
    <3>2. CASE d # p
      <4>1. pc[d] \in Checks \cup Steps /\ pc[d] # "new"
        BY <1>5, <2>2, <3>2 DEF Checks, Steps
      <4>2. target[d] \in Sessions /\ target[d] # s
        BY <1>4, <4>1, NoOwner DEF IInv, Types
      <4> QED BY <1>1, <1>3, <1>5, <3>2, <4>1, <4>2 DEF IInv, Owned
    <3> QED BY <3>1, <3>2
  <2>3. ASSUME NEW t \in Sessions
        PROVE  /\ status'[t] = "PREPARING" => \E d \in Commands : target'[d] = t /\ pc'[d] \in Checks
               /\ status'[t] = "STARTING" => \E d \in Commands : target'[d] = t /\ pc'[d] \in Steps
    <3>1. CASE t = s
      BY <1>1, <1>2, <1>3, <1>5, <1>8, <3>1
    <3>2. CASE t # s
      BY <1>1, <1>3, <1>5, <1>8, <3>2, PlacesApart DEF IInv, Owned, Checks, Steps
    <3> QED BY <3>1, <3>2
  <2> QED BY <2>1, <2>2, <2>3 DEF Owned
<1>10. Spoken'
  BY <1>1, <1>5, SpokenKept DEF Speeches
<1>11. Ordered'
  BY <1>1, <1>3, <1>4, OrderedKept DEF Begun
<1> QED BY <1>6, <1>7, <1>9, <1>10, <1>11 DEF IInv

\* A preparation ends, or is cancelled, and gives back both.
LEMMA LeavePrepareKeeps ==
  ASSUME IInv, NEW p \in Prepares, pc[p] \in Checks,
         NEW st \in {"READY", "FAILED"}, Prepared(p, st)
  PROVE  IInv'
<1>1. /\ Save(target[p], st, 1) /\ Goto(p, "done") /\ lock' = NoPrepare
      /\ UNCHANGED <<opening, main, target, known>>
  BY DEF Prepared, segmentVars
<1> DEFINE s == target[p]
<1>2. p \in Commands /\ s \in Sessions /\ pc[p] # "new" /\ lock = p /\ status[s] = "PREPARING"
  BY CommandsApart DEF IInv, Types, Owned, Checks
<1>3. /\ status' \in [Sessions -> Statuses \cup {"none"}] /\ version' \in [Sessions -> Nat]
      /\ status'[s] = st /\ version'[s] = version[s] + 1
      /\ \A t \in Sessions : t # s => status'[t] = status[t] /\ version'[t] = version[t]
  BY <1>1, <1>2, OneSaved DEF Statuses
<1>4. pc'[p] = "done" /\ \A d \in Commands : d # p => pc'[d] = pc[d]
  BY <1>1, <1>2, OneGoes
<1>5. "done" \notin Checks /\ "done" \notin Steps /\ "done" \notin Speeches /\ "done" \in Places
  BY DEF Checks, Steps, Speeches, Places, Resting
<1>6. Types'
  <2>1. opening' \in [Sessions -> SegmentType] /\ main' \in [Sessions -> SegmentType]
    BY <1>1 DEF IInv, Types
  <2> QED BY <1>1, <1>2, <1>3, <1>5, <2>1, TypesKeptAtWork
<1>7. OneStart'
  BY <1>4, CommandsApart, OneStartKept
<1>8. Owned'
  <2>1. ASSUME NEW q \in Prepares
        PROVE  pc'[q] \in Checks <=> lock' = q
    BY <1>1, <1>2, <1>4, <1>5, CommandsApart DEF IInv, Owned
  <2>2. ASSUME NEW d \in Commands, pc'[d] \in Checks \cup Steps
        PROVE  /\ pc'[d] \in Checks => status'[target'[d]] = "PREPARING"
               /\ pc'[d] \in Steps => status'[target'[d]] = "STARTING"
               /\ known'[d] = version'[target'[d]]
    <3>1. d # p /\ pc'[d] = pc[d] /\ pc[d] # "new"
      BY <1>4, <1>5, <2>2 DEF Checks, Steps
    <3>2. pc[d] \notin Checks
      BY <1>2, <3>1 DEF IInv, Types, Owned
    <3>3. target[d] \in Sessions /\ target[d] # s
      BY <1>2, <2>2, <3>1, <3>2, NoOwner DEF IInv, Types
    <3> QED BY <1>1, <1>3, <2>2, <3>1, <3>3 DEF IInv, Owned
  <2>3. ASSUME NEW t \in Sessions
        PROVE  /\ status'[t] = "PREPARING" => \E d \in Commands : target'[d] = t /\ pc'[d] \in Checks
               /\ status'[t] = "STARTING" => \E d \in Commands : target'[d] = t /\ pc'[d] \in Steps
    <3>1. CASE t = s
      BY <1>3, <3>1
    <3>2. CASE t # s
      BY <1>1, <1>2, <1>3, <1>4, <3>2, PlacesApart DEF IInv, Owned
    <3> QED BY <3>1, <3>2
  <2> QED BY <2>1, <2>2, <2>3 DEF Owned
<1>9. Spoken'
  BY <1>1, <1>4, <1>5, PlacesApart, SpokenKept
<1>10. Ordered'
  BY <1>1, <1>2, <1>3, OrderedKept DEF Begun
<1> QED BY <1>6, <1>7, <1>8, <1>9, <1>10 DEF IInv

\* An accepted start takes its session.
LEMMA ClaimStartKeeps ==
  ASSUME IInv, NEW c \in Starts, pc[c] = "accepted",
         status[target[c]] \in {"READY", "START_FAILED"}, version[target[c]] = known[c],
         NEW n \in Nat, Save(target[c], "STARTING", n), known' = [known EXCEPT ![c] = @ + n],
         Goto(c, "obsStatus"), UNCHANGED <<opening, main, target, lock>>
  PROVE  IInv'
<1> DEFINE s == target[c]
<1>2. c \in Commands /\ s \in Sessions /\ c \notin Prepares
  BY CommandsApart DEF IInv, Types
<1>3. /\ status' \in [Sessions -> Statuses \cup {"none"}] /\ version' \in [Sessions -> Nat]
      /\ status'[s] = "STARTING" /\ version'[s] = version[s] + n
      /\ \A t \in Sessions : t # s => status'[t] = status[t] /\ version'[t] = version[t]
  BY <1>2, OneSaved DEF Statuses
<1>4. known[c] \in Nat
  BY <1>2 DEF IInv, Types
<1>5. /\ pc'[c] = "obsStatus" /\ known'[c] = version[s] + n
      /\ \A d \in Commands : d # c => pc'[d] = pc[d] /\ known'[d] = known[d]
  <2>1. known'[c] = version[s] + n /\ \A d \in Commands : d # c => known'[d] = known[d]
    BY <1>2 DEF IInv, Types
  <2> QED BY <1>2, <2>1, OneGoes
<1>6. Types'
  <2>1. target' = [target EXCEPT ![c] = s] /\ known[c] + n \in Nat
        /\ known' = [known EXCEPT ![c] = known[c] + n]
    BY <1>4 DEF IInv, Types
  <2>2. "obsStatus" \in Places /\ "obsStatus" \notin Checks
    BY DEF Places, Checks, Steps
  <2>3. opening' \in [Sessions -> SegmentType] /\ main' \in [Sessions -> SegmentType]
    BY DEF IInv, Types
  <2> QED BY <1>2, <1>3, <2>1, <2>2, <2>3, TypesKept
<1>7. OneStart'
  BY <1>2, <1>5, CommandsApart, OneStartKept
<1>8. "obsStatus" \in Steps /\ "obsStatus" \notin Checks /\ "accepted" \notin Steps /\ "accepted" \notin Checks
  BY DEF Checks, Steps
<1>9. Owned'
  <2>1. \A q \in Prepares : pc'[q] \in Checks <=> lock' = q
    BY <1>2, <1>5, CommandsApart DEF IInv, Owned
  <2>2. ASSUME NEW d \in Commands, pc'[d] \in Checks \cup Steps
        PROVE  /\ pc'[d] \in Checks => status'[target'[d]] = "PREPARING"
               /\ pc'[d] \in Steps => status'[target'[d]] = "STARTING"
               /\ known'[d] = version'[target'[d]]
    <3>1. CASE d = c
      BY <1>3, <1>5, <1>8, <3>1
    <3>2. CASE d # c
      <4>1. pc[d] \in Checks \cup Steps /\ pc[d] # "new"
        BY <1>5, <2>2, <3>2 DEF Checks, Steps
      <4>2. target[d] \in Sessions /\ target[d] # s
        BY <4>1, NoOwner DEF IInv, Types
      <4> QED BY <1>3, <1>5, <3>2, <4>1, <4>2 DEF IInv, Owned
    <3> QED BY <3>1, <3>2
  <2>3. ASSUME NEW t \in Sessions
        PROVE  /\ status'[t] = "PREPARING" => \E d \in Commands : target'[d] = t /\ pc'[d] \in Checks
               /\ status'[t] = "STARTING" => \E d \in Commands : target'[d] = t /\ pc'[d] \in Steps
    <3>1. CASE t = s
      BY <1>2, <1>3, <1>5, <1>8, <3>1
    <3>2. CASE t # s
      <4>1. CASE status'[t] = "PREPARING"
        <5>1. PICK d \in Commands : target[d] = t /\ pc[d] \in Checks
          BY <1>3, <3>2, <4>1 DEF IInv, Owned
        <5> QED BY <1>3, <1>5, <1>8, <3>2, <4>1, <5>1
      <4>2. CASE status'[t] = "STARTING"
        <5>1. PICK d \in Commands : target[d] = t /\ pc[d] \in Steps
          BY <1>3, <3>2, <4>2 DEF IInv, Owned
        <5> QED BY <1>3, <1>5, <1>8, <3>2, <4>2, <5>1
      <4> QED BY <4>1, <4>2
    <3> QED BY <3>1, <3>2
  <2> QED BY <2>1, <2>2, <2>3 DEF Owned
<1>10. Spoken'
  BY <1>5, SpokenKept DEF Speeches
<1>11. Ordered'
  BY <1>3, OrderedKept DEF Begun
<1> QED BY <1>6, <1>7, <1>9, <1>10, <1>11 DEF IInv

\* A start gives its session back.
LEMMA LeaveStartKeepsOwners ==
  ASSUME IInv, NEW c \in Starts, pc[c] \in Steps,
         NEW st \in {"LIVE", "START_FAILED"}, NEW n \in Nat, Save(target[c], st, n),
         NEW step \in {"opening", "done"}, Goto(c, step),
         UNCHANGED <<target, known, lock>>
  PROVE  OneStart' /\ Owned'
<1> DEFINE s == target[c]
<1>1. /\ c \in Commands /\ s \in Sessions /\ pc[c] \notin {"new", "done"}
      /\ status[s] = "STARTING"
  BY CommandsApart DEF IInv, Types, Owned, Steps
<1>2. /\ status'[s] = st
      /\ \A t \in Sessions : t # s => status'[t] = status[t] /\ version'[t] = version[t]
  BY <1>1, OneSaved DEF Statuses
<1>3. pc'[c] = step /\ \A d \in Commands : d # c => pc'[d] = pc[d]
  BY <1>1, OneGoes
<1>4. step \notin Checks /\ step \notin Steps /\ pc[c] \notin Checks
  BY PlacesApart DEF Checks, Steps
<1>5. OneStart'
  BY <1>1, <1>3, CommandsApart, OneStartKept
<1>6. \A q \in Prepares : pc'[q] \in Checks <=> lock' = q
  BY <1>3, <1>4, CommandsApart DEF IInv, Owned
<1>7. ASSUME NEW d \in Commands, pc'[d] \in Checks \cup Steps
      PROVE  /\ pc'[d] \in Checks => status'[target'[d]] = "PREPARING"
             /\ pc'[d] \in Steps => status'[target'[d]] = "STARTING"
             /\ known'[d] = version'[target'[d]]
  <2>1. d # c /\ pc'[d] = pc[d] /\ pc[d] # "new" /\ pc[d] # "done"
    BY <1>3, <1>4, <1>7 DEF Checks, Steps
  <2>2. pc[d] \notin Steps
    BY <1>1, <2>1 DEF IInv, Types, OneStart
  <2>3. target[d] \in Sessions /\ target[d] # s
    BY <1>1, <1>7, <2>1, <2>2, NoOwner DEF IInv, Types
  <2> QED BY <1>2, <1>7, <2>1, <2>3 DEF IInv, Owned
<1>8. ASSUME NEW t \in Sessions
      PROVE  /\ status'[t] = "PREPARING" => \E d \in Commands : target'[d] = t /\ pc'[d] \in Checks
             /\ status'[t] = "STARTING" => \E d \in Commands : target'[d] = t /\ pc'[d] \in Steps
  <2>1. CASE t = s
    BY <1>2, <2>1
  <2>2. CASE t # s
    <3>1. CASE status'[t] = "PREPARING"
      <4>1. PICK d \in Commands : target[d] = t /\ pc[d] \in Checks
        BY <1>2, <2>2, <3>1 DEF IInv, Owned
      <4> QED BY <1>2, <1>3, <1>4, <2>2, <3>1, <4>1
    <3>2. CASE status'[t] = "STARTING"
      <4>1. PICK d \in Commands : target[d] = t /\ pc[d] \in Steps
        BY <1>2, <2>2, <3>2 DEF IInv, Owned
      <4> QED BY <1>2, <1>3, <1>4, <2>2, <3>2, <4>1
    <3> QED BY <3>1, <3>2
  <2> QED BY <2>1, <2>2
<1>9. Owned'
  BY <1>6, <1>7, <1>8 DEF Owned
<1> QED BY <1>5, <1>9

LEMMA FailStartKeeps ==
  ASSUME IInv, NEW c \in Starts, FailStart(c)
  PROVE  IInv'
<1> DEFINE s == target[c]
<1>1. /\ pc[c] \in Steps /\ Save(s, "START_FAILED", 1) /\ Goto(c, "done")
      /\ UNCHANGED <<opening, main, target, known, lock>>
  BY DEF FailStart, segmentVars, lockVars
<1>2. /\ c \in Commands /\ s \in Sessions /\ pc[c] # "new" /\ status[s] = "STARTING"
  BY <1>1, CommandsApart DEF IInv, Types, Owned, Steps
<1>3. /\ status' \in [Sessions -> Statuses \cup {"none"}] /\ version' \in [Sessions -> Nat]
      /\ \A t \in Sessions : t # s => status'[t] = status[t]
  BY <1>1, <1>2, OneSaved DEF Statuses
<1>4. pc'[c] = "done" /\ \A d \in Commands : d # c => pc'[d] = pc[d]
  BY <1>1, <1>2, OneGoes
<1>5. "done" \notin Checks /\ "done" \notin Steps /\ "done" \notin Speeches /\ "done" \in Places
  BY DEF Checks, Steps, Speeches, Places, Resting
<1>6. Types'
  <2>1. opening' \in [Sessions -> SegmentType] /\ main' \in [Sessions -> SegmentType]
    BY <1>1 DEF IInv, Types
  <2> QED BY <1>1, <1>2, <1>3, <1>5, <2>1, TypesKeptAtWork
<1>7. OneStart' /\ Owned'
  BY <1>1, LeaveStartKeepsOwners
<1>8. Spoken'
  BY <1>1, <1>4, <1>5, PlacesApart, SpokenKept
<1>9. Ordered'
  BY <1>1, <1>2, <1>3, OrderedKept DEF Begun
<1> QED BY <1>6, <1>7, <1>8, <1>9 DEF IInv

-----------------------------------------------------------------------------
\* Steps of the segments.

\* Segments of other sessions stay what they are.
LEMMA OneSegment ==
  ASSUME NEW seg \in [Sessions -> SegmentType], NEW s \in Sessions, NEW x \in SegmentType,
         NEW after, after = [seg EXCEPT ![s] = x]
  PROVE  /\ after \in [Sessions -> SegmentType] /\ after[s] = x
         /\ \A t \in Sessions : t # s => after[t] = seg[t]
  OBVIOUS

\* A session that starts has no segments yet.
LEMMA NotBegun ==
  ASSUME IInv, NEW s \in Sessions, status[s] \notin Begun
  PROVE  opening[s].status = "none" /\ main[s].status = "none"
  BY DEF IInv, Ordered, Begun

LEMMA GoLiveKeeps ==
  ASSUME IInv, NEW c \in Starts, GoLive(c)
  PROVE  IInv'
<1> DEFINE s == target[c]
<1>1. /\ pc[c] = "confirmLive" /\ UNCHANGED <<main, target, known, lock>>
  BY DEF GoLive, lockVars
<1>2. PICK n \in Nat, step \in {"opening", "done"} :
          /\ Save(s, "LIVE", n) /\ Goto(c, step)
          /\ \/ step = "done" /\ opening' = opening
             \/ step = "opening" /\ opening' = [opening EXCEPT ![s] = Segment("SPEAKING", 1)]
             \/ step = "done" /\ opening' = [opening EXCEPT ![s] = Segment("FAILED", 1)]
  BY DEF GoLive, StartsOpening
<1>3. /\ c \in Commands /\ s \in Sessions /\ pc[c] # "new" /\ status[s] = "STARTING"
      /\ pc[c] \in Steps
  BY <1>1, CommandsApart DEF IInv, Types, Owned, Steps
<1>4. /\ status' \in [Sessions -> Statuses \cup {"none"}] /\ version' \in [Sessions -> Nat]
      /\ status'[s] = "LIVE" /\ \A t \in Sessions : t # s => status'[t] = status[t]
  BY <1>2, <1>3, OneSaved DEF Statuses
<1>5. pc'[c] = step /\ \A d \in Commands : d # c => pc'[d] = pc[d]
  BY <1>2, <1>3, OneGoes
<1>6. step \notin Checks /\ step \notin Steps /\ step \in Places /\ pc[c] \notin Speeches
      /\ "done" \notin Speeches
  BY <1>1 DEF Checks, Steps, Speeches, Places, Resting
<1>7. opening[s].status = "none" /\ main[s].status = "none"
  BY <1>3, NotBegun DEF Begun
<1>8. /\ opening' \in [Sessions -> SegmentType]
      /\ \A t \in Sessions : t # s => opening'[t] = opening[t]
      /\ opening'[s].status = "SPEAKING" <=> step = "opening"
  <2>1. opening \in [Sessions -> SegmentType]
    BY DEF IInv, Types
  <2>2. Segment("SPEAKING", 1) \in SegmentType /\ Segment("FAILED", 1) \in SegmentType
    BY DEF Segment, SegmentType
  <2> QED BY <1>2, <1>3, <1>7, <2>1, <2>2 DEF Segment
<1>9. Types'
  <2>1. main' \in [Sessions -> SegmentType]
    BY <1>1 DEF IInv, Types
  <2> QED BY <1>1, <1>2, <1>3, <1>4, <1>6, <1>8, <2>1, TypesKeptAtWork
<1>10. OneStart' /\ Owned'
  BY <1>1, <1>2, <1>3, LeaveStartKeepsOwners
<1>11. \A d \in Commands : pc[d] \in Speeches => d # c /\ pc'[d] = pc[d] /\ target[d] # s
  BY <1>5, <1>6, <1>7, PlacesApart DEF IInv, Spoken
<1>12. Spoken'
  <2>1. ASSUME NEW d \in Commands
        PROVE  /\ pc'[d] = "opening" => opening'[target'[d]].status = "SPEAKING"
               /\ pc'[d] = "main" => main'[target'[d]].status = "SPEAKING"
    <3>1. CASE d = c
      BY <1>1, <1>5, <1>8, <3>1
    <3>2. CASE d # c
      <4>1. pc'[d] \in Speeches => target[d] \in Sessions /\ target[d] # s
        BY <1>5, <1>11, <3>2 DEF IInv, Types, Speeches
      <4> QED BY <1>1, <1>5, <1>8, <3>2, <4>1, PlacesApart DEF IInv, Spoken
    <3> QED BY <3>1, <3>2
  <2>2. ASSUME NEW t \in Sessions, opening'[t].status = "SPEAKING"
        PROVE  \E d \in Commands : target'[d] = t /\ pc'[d] = "opening"
    <3>1. CASE t = s
      BY <1>1, <1>3, <1>5, <1>8, <2>2, <3>1
    <3>2. CASE t # s
      <4>1. PICK d \in Commands : target[d] = t /\ pc[d] = "opening"
        BY <1>8, <2>2, <3>2 DEF IInv, Spoken
      <4> QED BY <1>1, <1>11, <4>1, PlacesApart
    <3> QED BY <3>1, <3>2
  <2>3. ASSUME NEW t \in Sessions, main'[t].status = "SPEAKING"
        PROVE  \E d \in Commands : target'[d] = t /\ pc'[d] = "main"
    <3>1. PICK d \in Commands : target[d] = t /\ pc[d] = "main"
      BY <1>1, <2>3 DEF IInv, Spoken
    <3> QED BY <1>1, <1>11, <3>1, PlacesApart
  <2>4. \A d, e \in Commands :
            pc'[d] \in Speeches /\ pc'[d] = pc'[e] /\ target'[d] = target'[e] => d = e
    BY <1>1, <1>5, <1>11 DEF IInv, Spoken
  <2> QED BY <2>1, <2>2, <2>3, <2>4 DEF Spoken
<1>13. Ordered'
  <2>1. ASSUME NEW t \in Sessions
        PROVE  /\ main'[t].status # "none" => opening'[t].status = "COMPLETED"
               /\ opening'[t].status # "none" => status'[t] \in {"LIVE", "ENDING", "ENDED"}
    BY <1>1, <1>4, <1>7, <1>8 DEF IInv, Ordered
  <2> QED BY <2>1 DEF Ordered
<1> QED BY <1>9, <1>10, <1>12, <1>13 DEF IInv

\* While a segment is spoken, or none is, nobody else speaks in the session.
LEMMA SpeaksAlone ==
  ASSUME IInv, NEW c \in Commands, target[c] \in Sessions,
         \/ pc[c] \in Speeches
         \/ "SPEAKING" \notin {opening[target[c]].status, main[target[c]].status}
  PROVE  \A d \in Commands : d # c /\ target[d] = target[c] => pc[d] \notin Speeches
<1> SUFFICES ASSUME NEW d \in Commands, d # c, target[d] = target[c], pc[d] \in Speeches
             PROVE  FALSE
  OBVIOUS
<1>1. "SPEAKING" \in {opening[target[c]].status, main[target[c]].status}
  BY PlacesApart DEF IInv, Spoken
<1>2. pc[c] \in Speeches
  BY <1>1
<1>3. pc[c] # pc[d]
  BY <1>2 DEF IInv, Spoken
<1>4. opening[target[c]].status = "SPEAKING" /\ main[target[c]].status = "SPEAKING"
  BY <1>2, <1>3, PlacesApart DEF IInv, Spoken
<1> QED BY <1>4 DEF IInv, Ordered

\* The segments of one session change, in the hands of the task that speaks them
\* before or after it.
LEMMA SegmentKeeps ==
  ASSUME IInv, NEW c \in Commands, pc[c] \in Speeches \cup {"sawOpening", "sawMain"},
         NEW step \in Speeches \cup {"done"}, Goto(c, step),
         UNCHANGED <<status, target, known, lock>>,
         version' \in [Sessions -> Nat],
         \A t \in Sessions : version'[t] = version[t] \/ status[t] = "LIVE",
         opening' \in [Sessions -> SegmentType], main' \in [Sessions -> SegmentType],
         \A t \in Sessions : t # target[c] => opening'[t] = opening[t] /\ main'[t] = main[t],
         opening'[target[c]].status = "SPEAKING" <=> step = "opening",
         main'[target[c]].status = "SPEAKING" <=> step = "main",
         main'[target[c]].status # "none" => opening'[target[c]].status = "COMPLETED",
         opening'[target[c]].status # "none" => status[target[c]] \in Begun,
         \A d \in Commands : d # c /\ target[d] = target[c] => pc[d] \notin Speeches
  PROVE  IInv'
<1> DEFINE s == target[c]
<1>1. /\ s \in Sessions /\ pc[c] \notin {"new", "done"} /\ pc[c] \notin Checks /\ pc[c] \notin Steps
  BY DEF IInv, Types, Speeches, Checks, Steps
<1>2. pc'[c] = step /\ \A d \in Commands : d # c => pc'[d] = pc[d]
  BY OneGoes
<1>3. step \notin Checks /\ step \notin Steps /\ step \in Places /\ "done" \notin Speeches
  BY DEF Checks, Steps, Speeches, Places, Resting
<1>4. Types'
  <2>1. status' \in [Sessions -> Statuses \cup {"none"}]
    BY DEF IInv, Types
  <2> QED BY <1>1, <1>3, <2>1, TypesKeptAtWork
<1>5. OneStart'
  BY <1>1, <1>2, CommandsApart, OneStartKept
<1>6. Owned'
  <2>1. \A d \in Commands : (pc'[d] \in Checks <=> pc[d] \in Checks) /\ (pc'[d] \in Steps <=> pc[d] \in Steps)
    BY <1>1, <1>2, <1>3
  <2> QED BY <2>1, OwnedKept
<1>7. \A d \in Commands : pc[d] \in Speeches /\ d # c => target[d] \in Sessions /\ target[d] # s
  BY DEF IInv, Types, Speeches
<1>8. Spoken'
  <2>1. ASSUME NEW d \in Commands
        PROVE  /\ pc'[d] = "opening" => opening'[target'[d]].status = "SPEAKING"
               /\ pc'[d] = "main" => main'[target'[d]].status = "SPEAKING"
    <3>1. CASE d = c
      BY <1>2, <3>1
    <3>2. CASE d # c
      BY <1>2, <1>7, <3>2, PlacesApart DEF IInv, Spoken
    <3> QED BY <3>1, <3>2
  <2>2. ASSUME NEW t \in Sessions, opening'[t].status = "SPEAKING"
        PROVE  \E d \in Commands : target'[d] = t /\ pc'[d] = "opening"
    <3>1. CASE t = s
      BY <1>2, <2>2, <3>1
    <3>2. CASE t # s
      <4>1. PICK d \in Commands : target[d] = t /\ pc[d] = "opening"
        BY <2>2, <3>2 DEF IInv, Spoken
      <4> QED BY <1>2, <3>2, <4>1
    <3> QED BY <3>1, <3>2
  <2>3. ASSUME NEW t \in Sessions, main'[t].status = "SPEAKING"
        PROVE  \E d \in Commands : target'[d] = t /\ pc'[d] = "main"
    <3>1. CASE t = s
      BY <1>2, <2>3, <3>1
    <3>2. CASE t # s
      <4>1. PICK d \in Commands : target[d] = t /\ pc[d] = "main"
        BY <2>3, <3>2 DEF IInv, Spoken
      <4> QED BY <1>2, <3>2, <4>1
    <3> QED BY <3>1, <3>2
  <2>4. \A d, e \in Commands :
            pc'[d] \in Speeches /\ pc'[d] = pc'[e] /\ target'[d] = target'[e] => d = e
    BY <1>2, <1>7 DEF IInv, Spoken
  <2> QED BY <2>1, <2>2, <2>3, <2>4 DEF Spoken
<1>9. Ordered'
  <2>1. ASSUME NEW t \in Sessions
        PROVE  /\ main'[t].status # "none" => opening'[t].status = "COMPLETED"
               /\ opening'[t].status # "none" => status'[t] \in {"LIVE", "ENDING", "ENDED"}
    BY DEF IInv, Ordered, Begun
  <2> QED BY <2>1 DEF Ordered
<1> QED BY <1>4, <1>5, <1>6, <1>8, <1>9 DEF IInv

\* What is known of the session in which a task speaks.
LEMMA AtSpeech ==
  ASSUME IInv, NEW c \in Commands
  PROVE  /\ pc[c] # "new" => target[c] \in Sessions
         /\ pc[c] = "opening" => /\ opening[target[c]].status = "SPEAKING"
                                 /\ main[target[c]].status = "none"
                                 /\ status[target[c]] \in Begun
         /\ pc[c] = "main" => /\ opening[target[c]].status = "COMPLETED"
                              /\ main[target[c]].status = "SPEAKING"
                              /\ status[target[c]] \in Begun
         /\ opening \in [Sessions -> SegmentType] /\ main \in [Sessions -> SegmentType]
         /\ version \in [Sessions -> Nat]
<1>1. pc[c] # "new" => target[c] \in Sessions
  BY DEF IInv, Types
<1>2. opening \in [Sessions -> SegmentType] /\ main \in [Sessions -> SegmentType]
      /\ version \in [Sessions -> Nat]
  BY DEF IInv, Types
<1>3. ASSUME pc[c] = "opening"
      PROVE  /\ opening[target[c]].status = "SPEAKING" /\ main[target[c]].status = "none"
             /\ status[target[c]] \in Begun
  BY <1>1, <1>3 DEF IInv, Spoken, Ordered, Begun
<1>4. ASSUME pc[c] = "main"
      PROVE  /\ opening[target[c]].status = "COMPLETED" /\ main[target[c]].status = "SPEAKING"
             /\ status[target[c]] \in Begun
  BY <1>1, <1>4 DEF IInv, Spoken, Ordered, Begun
<1> QED BY <1>1, <1>2, <1>3, <1>4

LEMMA FailOpeningKeeps ==
  ASSUME IInv, NEW c \in Commands, FailOpening(c)
  PROVE  IInv'
<1> DEFINE s == target[c]
<1>1. /\ pc[c] = "opening" /\ Goto(c, "done")
      /\ opening' = [opening EXCEPT ![s].status = "FAILED"]
      /\ UNCHANGED <<status, version, main, target, known, lock>>
  BY DEF FailOpening, sessionVars, lockVars
<1>2. s \in Sessions /\ main[s].status = "none" /\ status[s] \in Begun
      /\ opening \in [Sessions -> SegmentType] /\ main \in [Sessions -> SegmentType]
      /\ version \in [Sessions -> Nat]
  BY <1>1, AtSpeech
<1>3. /\ opening' \in [Sessions -> SegmentType] /\ opening'[s].status = "FAILED"
      /\ \A t \in Sessions : t # s => opening'[t] = opening[t]
  BY <1>1, <1>2 DEF SegmentType
<1>4. \A d \in Commands : d # c /\ target[d] = s => pc[d] \notin Speeches
  BY <1>1, <1>2, SpeaksAlone, PlacesApart
<1> QED BY <1>1, <1>2, <1>3, <1>4, SegmentKeeps, PlacesApart

LEMMA EndMainKeeps ==
  ASSUME IInv, NEW c \in Commands, EndMain(c)
  PROVE  IInv'
<1> DEFINE s == target[c]
<1>1. PICK st \in {"COMPLETED", "FAILED"} :
          main' = [main EXCEPT ![s].status = st]
  BY DEF EndMain
<1>2. /\ pc[c] = "main" /\ Goto(c, "done")
      /\ UNCHANGED <<status, version, opening, target, known, lock>>
  BY DEF EndMain, sessionVars, lockVars
<1>3. s \in Sessions /\ opening[s].status = "COMPLETED" /\ status[s] \in Begun
      /\ opening \in [Sessions -> SegmentType] /\ main \in [Sessions -> SegmentType]
      /\ version \in [Sessions -> Nat]
  BY <1>2, AtSpeech
<1>4. /\ main' \in [Sessions -> SegmentType] /\ main'[s].status = st
      /\ \A t \in Sessions : t # s => main'[t] = main[t]
  BY <1>1, <1>3 DEF SegmentType
<1>5. \A d \in Commands : d # c /\ target[d] = s => pc[d] \notin Speeches
  BY <1>2, <1>3, SpeaksAlone, PlacesApart
<1> QED BY <1>2, <1>3, <1>4, <1>5, SegmentKeeps, PlacesApart

LEMMA EndOpeningKeeps ==
  ASSUME IInv, NEW c \in Commands, EndOpening(c)
  PROVE  IInv'
<1> DEFINE s == target[c]
<1>1. /\ pc[c] = "opening" /\ opening' = [opening EXCEPT ![s].status = "COMPLETED"]
      /\ UNCHANGED <<target, known, lock>>
  BY DEF EndOpening, lockVars
<1>2. s \in Sessions /\ main[s].status = "none" /\ status[s] \in Begun
      /\ opening \in [Sessions -> SegmentType] /\ main \in [Sessions -> SegmentType]
      /\ version \in [Sessions -> Nat]
  BY <1>1, AtSpeech
<1>3. /\ opening' \in [Sessions -> SegmentType] /\ opening'[s].status = "COMPLETED"
      /\ \A t \in Sessions : t # s => opening'[t] = opening[t]
  BY <1>1, <1>2 DEF SegmentType
<1>4. PICK step \in {"main", "done"} :
          /\ Goto(c, step)
          /\ \/ step = "done" /\ main' = main
             \/ step = "main" /\ main' = [main EXCEPT ![s] = Segment("SPEAKING", 1)]
             \/ step = "done" /\ main' = [main EXCEPT ![s] = Segment("FAILED", 1)]
          /\ UNCHANGED sessionVars \/ (status[s] = "LIVE" /\ Attach(s))
  BY DEF EndOpening, MainAllowed
<1>5. /\ main' \in [Sessions -> SegmentType]
      /\ \A t \in Sessions : t # s => main'[t] = main[t]
      /\ main'[s].status = "SPEAKING" <=> step = "main"
  <2>1. Segment("SPEAKING", 1) \in SegmentType /\ Segment("FAILED", 1) \in SegmentType
    BY DEF Segment, SegmentType
  <2> QED BY <1>2, <1>4, <2>1 DEF Segment
<1>6. /\ status' = status /\ version' \in [Sessions -> Nat]
      /\ \A t \in Sessions : version'[t] = version[t] \/ status[t] = "LIVE"
  <2>1. status \in [Sessions -> Statuses \cup {"none"}]
    BY DEF IInv, Types
  <2>2. CASE UNCHANGED sessionVars
    BY <1>2, <2>2 DEF sessionVars
  <2>3. CASE status[s] = "LIVE" /\ Attach(s)
    <3>1. version[s] + 1 \in Nat
      BY <1>2
    <3> QED BY <1>2, <2>1, <2>3, <3>1 DEF Attach, Save
  <2> QED BY <1>4, <2>2, <2>3
<1>7. \A d \in Commands : d # c /\ target[d] = s => pc[d] \notin Speeches
  BY <1>1, <1>2, SpeaksAlone, PlacesApart
<1>8. step \in Speeches \cup {"done"} /\ step # "opening"
  BY PlacesApart
<1>9. Goto(c, step)
  BY <1>4
<1> QED BY <1>1, <1>2, <1>3, <1>5, <1>6, <1>7, <1>8, <1>9, SegmentKeeps, PlacesApart

\* A retry that is not allowed any more changes nothing.
LEMMA RefusedRetryKeeps ==
  ASSUME IInv, NEW c \in Commands, pc[c] \in {"sawOpening", "sawMain"}, Goto(c, "done"),
         UNCHANGED <<status, version, opening, main, target, known, lock>>
  PROVE  IInv'
<1>1. /\ target[c] \in Sessions /\ target' = [target EXCEPT ![c] = target[c]]
      /\ known[c] \in Nat /\ known' = [known EXCEPT ![c] = known[c]]
      /\ status' \in [Sessions -> Statuses \cup {"none"}]
  BY DEF IInv, Types
<1>2. pc[c] \in Resting /\ "done" \in Resting
  BY DEF Resting
<1> QED BY <1>1, <1>2, RestKeeps

LEMMA AgainSpeaks ==
  ASSUME NEW seg \in SegmentType
  PROVE  Again(seg) \in SegmentType /\ Again(seg).status = "SPEAKING"
  BY DEF Again, Segment, SegmentType

LEMMA RetryOpeningKeeps ==
  ASSUME IInv, NEW c \in Commands, RetryOpening(c)
  PROVE  IInv'
<1> DEFINE s == target[c]
<1>1. pc[c] = "sawOpening" /\ UNCHANGED <<status, version, main, target, known, lock>>
  BY DEF RetryOpening, sessionVars, lockVars
<1>2. CASE Goto(c, "done") /\ UNCHANGED opening
  BY <1>1, <1>2, RefusedRetryKeeps
<1>3. CASE /\ Retryable(c, opening[s]) /\ Goto(c, "opening")
           /\ opening' = [opening EXCEPT ![s] = Again(@)]
  <2>1. s \in Sessions /\ opening \in [Sessions -> SegmentType] /\ main \in [Sessions -> SegmentType]
        /\ version \in [Sessions -> Nat]
    BY <1>1, AtSpeech
  <2>2. opening[s].status = "FAILED" /\ status[s] \in Begun
    BY <1>3 DEF Retryable, Begun
  <2>3. main[s].status = "none"
    BY <2>1, <2>2 DEF IInv, Ordered
  <2>4. /\ opening' \in [Sessions -> SegmentType] /\ opening'[s].status = "SPEAKING"
        /\ \A t \in Sessions : t # s => opening'[t] = opening[t]
    BY <1>3, <2>1, AgainSpeaks
  <2>5. \A d \in Commands : d # c /\ target[d] = s => pc[d] \notin Speeches
    BY <2>1, <2>2, <2>3, SpeaksAlone
  <2> QED BY <1>1, <1>3, <2>1, <2>2, <2>3, <2>4, <2>5, SegmentKeeps, PlacesApart
<1> QED BY <1>2, <1>3 DEF RetryOpening

LEMMA RetryMainKeeps ==
  ASSUME IInv, NEW c \in Commands, RetryMain(c)
  PROVE  IInv'
<1> DEFINE s == target[c]
<1>1. pc[c] = "sawMain" /\ UNCHANGED <<status, version, opening, target, known, lock>>
  BY DEF RetryMain, sessionVars, lockVars
<1>2. CASE Goto(c, "done") /\ UNCHANGED main
  BY <1>1, <1>2, RefusedRetryKeeps
<1>3. CASE /\ Retryable(c, main[s]) /\ Goto(c, "main")
           /\ main' = [main EXCEPT ![s] = Again(@)]
  <2>1. s \in Sessions /\ opening \in [Sessions -> SegmentType] /\ main \in [Sessions -> SegmentType]
        /\ version \in [Sessions -> Nat]
    BY <1>1, AtSpeech
  <2>2. main[s].status = "FAILED" /\ status[s] \in Begun
    BY <1>3 DEF Retryable, Begun
  <2>3. opening[s].status = "COMPLETED"
    BY <2>1, <2>2 DEF IInv, Ordered
  <2>4. /\ main' \in [Sessions -> SegmentType] /\ main'[s].status = "SPEAKING"
        /\ \A t \in Sessions : t # s => main'[t] = main[t]
    BY <1>3, <2>1, AgainSpeaks
  <2>5. \A d \in Commands : d # c /\ target[d] = s => pc[d] \notin Speeches
    BY <2>1, <2>2, <2>3, SpeaksAlone
  <2> QED BY <1>1, <1>3, <2>1, <2>2, <2>3, <2>4, <2>5, SegmentKeeps, PlacesApart
<1> QED BY <1>2, <1>3 DEF RetryMain

-----------------------------------------------------------------------------
\* Commands that arrive, and tasks that are not let in.

LEMMA ArriveKeeps ==
  ASSUME IInv, NEW c \in Commands, NEW s \in Sessions,
         \/ c \in Prepares /\ ArrivePrepare(c, s)
         \/ c \in Starts /\ Approve(c, s)
         \/ c \in Retries /\ SeeSegment(c, s)
  PROVE  IInv'
<1>1. /\ pc[c] = "new" /\ target' = [target EXCEPT ![c] = s]
      /\ UNCHANGED <<version, opening, main, lock>>
  BY DEF ArrivePrepare, Approve, SeeSegment, Arrives, sessionVars, segmentVars, lockVars
<1>2. /\ status' \in [Sessions -> Statuses \cup {"none"}]
      /\ \A t \in Sessions : status'[t] = status[t] \/ (status[t] = "none" /\ status'[t] = "CREATED")
  <2>1. status \in [Sessions -> Statuses \cup {"none"}]
    BY DEF IInv, Types
  <2>2. \/ status' = status
        \/ status' = [status EXCEPT ![s] = IF @ = "none" THEN "CREATED" ELSE @]
    BY DEF ArrivePrepare, Approve, SeeSegment, sessionVars
  <2> QED BY <2>1, <2>2 DEF Statuses
<1>3. PICK step \in {"queued", "accepted", "sawOpening", "sawMain"}, n \in Nat :
          Goto(c, step) /\ known' = [known EXCEPT ![c] = n]
  <2>1. version[s] \in Nat /\ opening[s].attempt \in Nat /\ main[s].attempt \in Nat
    BY DEF IInv, Types, SegmentType
  <2> QED BY <2>1 DEF ArrivePrepare, Approve, SeeSegment
<1>4. pc[c] \in Resting /\ step \in Resting
  BY <1>1 DEF Resting
<1>5. c \notin Starts \/ \A d \in Starts : pc[d] \in {"new", "done"}
  BY CommandsApart DEF Approve
<1>6. Goto(c, step) /\ known' = [known EXCEPT ![c] = n]
  BY <1>3
<1> QED BY <1>1, <1>2, <1>4, <1>5, <1>6, RestKeeps

LEMMA EnterPrepareKeeps ==
  ASSUME IInv, NEW p \in Prepares, EnterPrepare(p)
  PROVE  IInv'
<1>1. CASE lock' = p
  BY <1>1, ClaimPrepareKeeps
<1>2. CASE lock' # p
  <2>1. /\ pc[p] = "queued" /\ Goto(p, "done")
        /\ UNCHANGED <<status, version, opening, main, target, known, lock>>
    BY <1>2 DEF EnterPrepare, sessionVars, segmentVars
  <2>2. /\ p \in Commands /\ target[p] \in Sessions /\ target' = [target EXCEPT ![p] = target[p]]
        /\ known[p] \in Nat /\ known' = [known EXCEPT ![p] = known[p]]
        /\ status' \in [Sessions -> Statuses \cup {"none"}]
    BY <2>1, CommandsApart DEF IInv, Types
  <2>3. pc[p] \in Resting /\ "done" \in Resting
    BY <2>1 DEF Resting
  <2> QED BY <2>1, <2>2, <2>3, RestKeeps
<1> QED BY <1>1, <1>2

LEMMA BeginStartKeeps ==
  ASSUME IInv, NEW c \in Starts, BeginStart(c)
  PROVE  IInv'
<1> DEFINE s == target[c]
           steps == IF status[s] = "START_FAILED" THEN 3 ELSE 2
<1>1. /\ pc[c] = "accepted" /\ UNCHANGED <<opening, main, target, lock>>
  BY DEF BeginStart, segmentVars, lockVars
<1>2. CASE /\ version[s] = known[c] /\ status[s] \in {"READY", "START_FAILED"}
           /\ Save(s, "STARTING", steps) /\ known' = [known EXCEPT ![c] = @ + steps]
           /\ Goto(c, "obsStatus")
  <2>1. steps \in Nat
    OBVIOUS
  <2> QED BY <1>1, <1>2, <2>1, ClaimStartKeeps
<1>3. CASE Goto(c, "done") /\ UNCHANGED <<sessionVars, known>>
  <2>1. /\ c \in Commands /\ target[c] \in Sessions /\ target' = [target EXCEPT ![c] = target[c]]
        /\ known[c] \in Nat /\ known' = [known EXCEPT ![c] = known[c]]
        /\ status' \in [Sessions -> Statuses \cup {"none"}] /\ UNCHANGED <<status, version>>
    BY <1>1, <1>3, CommandsApart DEF IInv, Types, sessionVars
  <2>2. pc[c] \in Resting /\ "done" \in Resting
    BY <1>1 DEF Resting
  <2> QED BY <1>1, <1>3, <2>1, <2>2, RestKeeps
<1> QED BY <1>2, <1>3 DEF BeginStart

-----------------------------------------------------------------------------
LEMMA InitIsGood == Init => IInv
<1> SUFFICES ASSUME Init PROVE IInv
  OBVIOUS
<1>1. \A c \in Commands : pc[c] = "new"
  BY DEF Init
<1>2. "new" \notin Checks /\ "new" \notin Steps /\ "new" \notin Speeches /\ "new" \in Resting
  BY DEF Checks, Steps, Speeches, Resting
<1>3. Types
  BY <1>1, <1>2 DEF Init, Types, Segment, SegmentType
<1>4. OneStart
  BY <1>1, CommandsApart DEF OneStart
<1>5. Owned
  BY <1>1, <1>2, CommandsApart DEF Init, Owned
<1>6. Spoken
  BY <1>1, <1>2 DEF Init, Spoken, Segment
<1>7. Ordered
  BY DEF Init, Ordered, Segment
<1> QED BY <1>3, <1>4, <1>5, <1>6, <1>7 DEF IInv

LEMMA CheckKeeps ==
  ASSUME IInv, NEW p \in Prepares, CheckYouTube(p) \/ CheckObs(p)
  PROVE  IInv'
<1>1. CASE CheckObs(p)
  BY <1>1, StillKeeps DEF CheckObs, segmentVars
<1>2. CASE CheckYouTube(p)
  <2>1. PICK next \in Checks : pc[p] \in Checks /\ Goto(p, next)
    BY <1>2 DEF CheckYouTube, Checks
  <2>2. UNCHANGED <<sessionVars, opening, main, target, known, lock>>
    BY <1>2 DEF CheckYouTube, segmentVars
  <2>3. p \in Commands
    BY CommandsApart
  <2>4. pc[p] \in Checks /\ Goto(p, next)
    BY <2>1
  <2> QED BY <2>2, <2>3, <2>4, StaysKeeps
<1> QED BY <1>1, <1>2

LEMMA PreparedKeeps ==
  ASSUME IInv, NEW p \in Prepares, EndPrepare(p) \/ CancelPrepare(p)
  PROVE  IInv'
<1>1. PICK st \in {"READY", "FAILED"} : Prepared(p, st)
  BY DEF EndPrepare, CancelPrepare
<1>2. pc[p] \in Checks
  BY DEF EndPrepare, CancelPrepare, Checks
<1>3. Prepared(p, st)
  BY <1>1
<1> QED BY <1>2, <1>3, LeavePrepareKeeps

LEMMA StepStartKeeps ==
  ASSUME IInv, NEW c \in Starts, StepStart(c)
  PROVE  IInv'
<1>1. /\ pc[c] \in Steps /\ pc[c] # "confirmLive" /\ Goto(c, Continuation(c))
      /\ UNCHANGED <<sessionVars, opening, main, target, known, lock>>
  BY DEF StepStart, segmentVars, lockVars
<1>2. Continuation(c) \in Steps
  BY <1>1 DEF Continuation, Steps
<1>3. c \in Commands
  BY CommandsApart
<1> QED BY <1>1, <1>2, <1>3, StaysKeeps

LEMMA StepKeeps == IInv /\ [Next]_vars => IInv'
<1> SUFFICES ASSUME IInv, [Next]_vars PROVE IInv'
  OBVIOUS
<1>1. CASE UNCHANGED vars
  BY <1>1, StillKeeps DEF vars, segmentVars, lockVars
<1>2. CASE WorldMoves
  BY <1>2, StillKeeps DEF WorldMoves, segmentVars, lockVars
<1>3. ASSUME NEW p \in Prepares, CancelPrepare(p)
      PROVE  IInv'
  BY <1>3, PreparedKeeps
<1>4. ASSUME NEW c \in Commands, TaskNext(c)
      PROVE  IInv'
  <2>1. CASE c \in Prepares /\ (EnterPrepare(c) \/ CheckYouTube(c) \/ CheckObs(c) \/ EndPrepare(c))
    BY <2>1, EnterPrepareKeeps, CheckKeeps, PreparedKeeps
  <2>2. CASE c \in Starts /\ (BeginStart(c) \/ StepStart(c) \/ FailStart(c) \/ GoLive(c))
    BY <2>2, BeginStartKeeps, StepStartKeeps, FailStartKeeps, GoLiveKeeps
  <2>3. CASE RetryOpening(c) \/ RetryMain(c)
    BY <2>3, RetryOpeningKeeps, RetryMainKeeps
  <2>4. CASE FailOpening(c) \/ EndOpening(c) \/ EndMain(c)
    BY <2>4, FailOpeningKeeps, EndOpeningKeeps, EndMainKeeps
  <2> QED BY <1>4, <2>1, <2>2, <2>3, <2>4 DEF TaskNext
<1>5. ASSUME NEW s \in Sessions, EndBegins(s) \/ EndFinishes(s)
      PROVE  IInv'
  BY <1>5, EndKeeps
<1>6. ASSUME NEW s \in Sessions, NEW c \in Commands,
             \/ c \in Prepares /\ ArrivePrepare(c, s)
             \/ c \in Starts /\ Approve(c, s)
             \/ c \in Retries /\ SeeSegment(c, s)
      PROVE  IInv'
  BY <1>6, ArriveKeeps
<1> QED BY <1>1, <1>2, <1>3, <1>4, <1>5, <1>6, CommandsApart DEF Next

\* Whatever commands are given when, a session has the owners and the segments the
\* usecases took it to have before their awaits.
THEOREM Invariant == Spec => []IInv
<1>1. Init => IInv
  BY InitIsGood
<1>2. IInv /\ [Next]_vars => IInv'
  BY StepKeeps
<1> QED BY <1>1, <1>2, PTL DEF Spec

-----------------------------------------------------------------------------
LEMMA OwnersAreOne == IInv => OneOwner
<1> SUFFICES ASSUME IInv, NEW s \in Sessions
             PROVE  LET owners == {c \in Commands : target[c] = s /\ pc[c] \in Steps \cup Checks} IN
                    /\ Cardinality(owners) = IF status[s] \in {"PREPARING", "STARTING"} THEN 1 ELSE 0
                    /\ \A c \in owners : known[c] = version[s]
  BY DEF OneOwner
<1> DEFINE owners == {c \in Commands : target[c] = s /\ pc[c] \in Steps \cup Checks}
<1>1. \A c \in owners : known[c] = version[s]
  BY DEF IInv, Owned
<1>2. CASE status[s] \notin {"PREPARING", "STARTING"}
  <2>1. owners = {}
    BY <1>2, NoOwner
  <2> HIDE DEF owners
  <2> QED BY <1>1, <1>2, <2>1, FS_EmptySet DEF owners
<1>3. CASE status[s] \in {"PREPARING", "STARTING"}
  <2>1. PICK c \in Commands : target[c] = s /\ pc[c] \in Steps \cup Checks
    BY <1>3 DEF IInv, Owned
  <2>2. ASSUME NEW d \in Commands, target[d] = s, pc[d] \in Steps \cup Checks
        PROVE  d = c
    <3>1. CASE status[s] = "PREPARING"
      <4>1. pc[c] \in Checks /\ pc[d] \in Checks
        BY <2>1, <2>2, <3>1, NoOwner
      <4> QED BY <4>1 DEF IInv, Types, Owned
    <3>2. CASE status[s] = "STARTING"
      <4>1. pc[c] \in Steps /\ pc[d] \in Steps
        BY <2>1, <2>2, <3>2, NoOwner
      <4>2. pc[c] \notin {"new", "done"} /\ pc[d] \notin {"new", "done"}
        BY <4>1 DEF Steps
      <4> QED BY <4>1, <4>2 DEF IInv, Types, OneStart
    <3> QED BY <1>3, <3>1, <3>2
  <2>3. owners = {c}
    BY <2>1, <2>2
  <2> HIDE DEF owners
  <2> QED BY <1>1, <1>3, <2>3, FS_Singleton DEF owners
<1> QED BY <1>2, <1>3

\* No two tasks prepare or start a session, and none does with a copy of it that is
\* not current, though the two usecases share no lock.
THEOREM OneOwnerCorrect == Spec => []OneOwner
  BY Invariant, OwnersAreOne, PTL

-----------------------------------------------------------------------------
\* A segment is spoken by one task, and two are never spoken at once.
LEMMA OneSpeaker ==
  ASSUME IInv, NEW s \in Sessions
  PROVE  Cardinality({c \in Commands : target[c] = s /\ pc[c] = "opening"})
           + Cardinality({c \in Commands : target[c] = s /\ pc[c] = "main"})
             = IF "SPEAKING" \in {opening[s].status, main[s].status} THEN 1 ELSE 0
<1> DEFINE openers == {c \in Commands : target[c] = s /\ pc[c] = "opening"}
           mains == {c \in Commands : target[c] = s /\ pc[c] = "main"}
<1>1. CASE opening[s].status = "SPEAKING"
  <2>1. main[s].status # "SPEAKING"
    BY <1>1 DEF IInv, Ordered
  <2>2. PICK c \in Commands : target[c] = s /\ pc[c] = "opening"
    BY <1>1 DEF IInv, Spoken
  <2>3. openers = {c}
    BY <2>2, PlacesApart DEF IInv, Spoken
  <2>4. mains = {}
    BY <2>1 DEF IInv, Spoken
  <2> HIDE DEF openers, mains
  <2>5. Cardinality(openers) = 1 /\ Cardinality(mains) = 0
    BY <2>3, <2>4, FS_EmptySet, FS_Singleton
  <2> QED BY <1>1, <2>5 DEF openers, mains
<1>2. CASE opening[s].status # "SPEAKING" /\ main[s].status = "SPEAKING"
  <2>1. openers = {}
    BY <1>2 DEF IInv, Spoken
  <2>2. PICK c \in Commands : target[c] = s /\ pc[c] = "main"
    BY <1>2 DEF IInv, Spoken
  <2>3. mains = {c}
    BY <2>2, PlacesApart DEF IInv, Spoken
  <2> HIDE DEF openers, mains
  <2>4. Cardinality(openers) = 0 /\ Cardinality(mains) = 1
    BY <2>1, <2>3, FS_EmptySet, FS_Singleton
  <2> QED BY <1>2, <2>4 DEF openers, mains
<1>3. CASE opening[s].status # "SPEAKING" /\ main[s].status # "SPEAKING"
  <2>1. openers = {} /\ mains = {}
    BY <1>3 DEF IInv, Spoken
  <2> HIDE DEF openers, mains
  <2>2. Cardinality(openers) = 0 /\ Cardinality(mains) = 0
    BY <2>1, FS_EmptySet
  <2> QED BY <1>3, <2>2 DEF openers, mains
<1> QED BY <1>1, <1>2, <1>3

\* Only these steps begin a segment.
LEMMA WhoBegins ==
  ASSUME IInv, [Next]_vars, NEW s \in Sessions,
         \/ opening[s].status # "SPEAKING" /\ opening'[s].status = "SPEAKING"
         \/ main[s].status # "SPEAKING" /\ main'[s].status = "SPEAKING"
  PROVE  \E c \in Commands :
            \/ c \in Starts /\ GoLive(c)
            \/ EndOpening(c) \/ RetryOpening(c) \/ RetryMain(c)
<1>1. ~UNCHANGED <<opening, main>>
  OBVIOUS
<1>2. Next
  BY <1>1 DEF vars, segmentVars
<1>3. ~WorldMoves
  BY <1>1 DEF WorldMoves, segmentVars
<1>4. \A p \in Prepares :
          ~(CancelPrepare(p) \/ EnterPrepare(p) \/ CheckYouTube(p) \/ CheckObs(p) \/ EndPrepare(p))
  BY <1>1 DEF CancelPrepare, EnterPrepare, CheckYouTube, CheckObs, EndPrepare, Prepared, segmentVars
<1>5. \A c \in Starts : ~(BeginStart(c) \/ StepStart(c) \/ FailStart(c))
  BY <1>1 DEF BeginStart, StepStart, FailStart, segmentVars
<1>6. \A t \in Sessions :
          /\ ~EndBegins(t) /\ ~EndFinishes(t)
          /\ \A c \in Commands : ~ArrivePrepare(c, t) /\ ~Approve(c, t) /\ ~SeeSegment(c, t)
  BY <1>1 DEF EndBegins, EndFinishes, ArrivePrepare, Approve, SeeSegment, segmentVars
<1>7. \A c \in Commands : ~FailOpening(c) /\ ~EndMain(c)
  <2>1. ASSUME NEW c \in Commands, FailOpening(c) PROVE FALSE
    <3>1. opening' = [opening EXCEPT ![target[c]].status = "FAILED"] /\ main' = main
      BY <2>1 DEF FailOpening
    <3>2. opening'[s].status = "FAILED" \/ opening'[s].status = opening[s].status
      BY <3>1 DEF IInv, Types, SegmentType
    <3> QED BY <3>1, <3>2
  <2>2. ASSUME NEW c \in Commands, EndMain(c) PROVE FALSE
    <3>1. PICK st \in {"COMPLETED", "FAILED"} :
              main' = [main EXCEPT ![target[c]].status = st] /\ opening' = opening
      BY <2>2 DEF EndMain
    <3>2. main'[s].status = st \/ main'[s].status = main[s].status
      BY <3>1 DEF IInv, Types, SegmentType
    <3> QED BY <3>1, <3>2
  <2> QED BY <2>1, <2>2
<1>8. PICK c \in Commands : TaskNext(c)
  BY <1>2, <1>3, <1>4, <1>6, CommandsApart DEF Next
<1> QED BY <1>4, <1>5, <1>7, <1>8 DEF TaskNext

LEMMA StepsKeepOrder == IInv /\ [Next]_vars =>
  \A s \in Sessions :
      /\ opening[s].status # "SPEAKING" /\ opening'[s].status = "SPEAKING" =>
            main[s].status = "none" /\ status'[s] = "LIVE"
      /\ main[s].status # "SPEAKING" /\ main'[s].status = "SPEAKING" =>
            opening'[s].status = "COMPLETED" /\ status'[s] = "LIVE"
<1> SUFFICES ASSUME IInv, [Next]_vars, NEW s \in Sessions
             PROVE  /\ opening[s].status # "SPEAKING" /\ opening'[s].status = "SPEAKING" =>
                          main[s].status = "none" /\ status'[s] = "LIVE"
                    /\ main[s].status # "SPEAKING" /\ main'[s].status = "SPEAKING" =>
                          opening'[s].status = "COMPLETED" /\ status'[s] = "LIVE"
  OBVIOUS
<1>1. /\ opening \in [Sessions -> SegmentType] /\ main \in [Sessions -> SegmentType]
      /\ status \in [Sessions -> Statuses \cup {"none"}]
  BY DEF IInv, Types
<1>2. CASE opening[s].status # "SPEAKING" /\ opening'[s].status = "SPEAKING"
  <2>1. main[s].status = "none" /\ status'[s] = "LIVE" /\ main'[s] = main[s]
    <3>1. PICK c \in Commands :
            (c \in Starts /\ GoLive(c)) \/ EndOpening(c) \/ RetryOpening(c) \/ RetryMain(c)
      BY <1>2, WhoBegins
    <3>2. CASE c \in Starts /\ GoLive(c)
      <4>1. target[c] = s /\ main' = main
        BY <1>1, <1>2, <3>2 DEF GoLive, StartsOpening
      <4>2. status[s] = "STARTING"
        BY <3>2, <4>1 DEF GoLive, IInv, Owned, Steps
      <4>3. status'[s] = "LIVE"
        BY <1>1, <3>2, <4>1 DEF GoLive, StartsOpening, Save
      <4> QED BY <4>1, <4>2, <4>3, NotBegun DEF Begun
    <3>3. CASE EndOpening(c)
      <4>1. opening'[s].status = "COMPLETED" \/ opening'[s].status = opening[s].status
        BY <1>1, <3>3 DEF EndOpening, SegmentType
      <4> QED BY <1>2, <4>1
    <3>4. CASE RetryOpening(c)
      <4>1. target[c] = s /\ Retryable(c, opening[s]) /\ UNCHANGED <<status, main>>
        BY <1>1, <1>2, <3>4 DEF RetryOpening, sessionVars
      <4> QED BY <4>1 DEF Retryable, IInv, Ordered
    <3>5. CASE RetryMain(c)
      BY <1>2, <3>5 DEF RetryMain
    <3> QED BY <3>1, <3>2, <3>3, <3>4, <3>5
  <2> QED BY <1>2, <2>1
<1>3. CASE main[s].status # "SPEAKING" /\ main'[s].status = "SPEAKING"
  <2>1. opening'[s].status = "COMPLETED" /\ status'[s] = "LIVE"
    <3>1. PICK c \in Commands :
            (c \in Starts /\ GoLive(c)) \/ EndOpening(c) \/ RetryOpening(c) \/ RetryMain(c)
      BY <1>3, WhoBegins
    <3>2. CASE c \in Starts /\ GoLive(c)
      BY <1>3, <3>2 DEF GoLive
    <3>3. CASE EndOpening(c)
      <4>1. target[c] = s
        BY <1>1, <1>3, <3>3 DEF EndOpening
      <4>2. MainAllowed(s) /\ status'[s] = status[s]
        BY <1>1, <1>3, <3>3, <4>1 DEF EndOpening, Attach, Save, sessionVars
      <4>3. opening'[s].status = "COMPLETED"
        BY <1>1, <3>3, <4>1 DEF EndOpening, SegmentType
      <4> QED BY <4>2, <4>3 DEF MainAllowed
    <3>4. CASE RetryOpening(c)
      BY <1>3, <3>4 DEF RetryOpening
    <3>5. CASE RetryMain(c)
      <4>1. target[c] = s /\ Retryable(c, main[s]) /\ UNCHANGED <<status, opening>>
        BY <1>1, <1>3, <3>5 DEF RetryMain, sessionVars
      <4> QED BY <4>1 DEF Retryable, IInv, Ordered
    <3> QED BY <3>1, <3>2, <3>3, <3>4, <3>5
  <2> QED BY <1>3, <2>1
<1> QED BY <1>2, <1>3

\* However retries, ends and the tasks of starts interleave, no segment is begun
\* twice, out of its order, or in a session that is not LIVE.
THEOREM SegmentsInOrderCorrect == Spec => SegmentsInOrder
<1>1. ASSUME IInv, [Next]_vars
      PROVE  \A s \in Sessions :
                LET speakers(step) == {c \in Commands : target[c] = s /\ pc[c] = step}
                    begins(seg) == seg[s].status # "SPEAKING" /\ seg'[s].status = "SPEAKING" IN
                /\ begins(opening) => main[s].status = "none" /\ status'[s] = "LIVE"
                /\ begins(main) => opening'[s].status = "COMPLETED" /\ status'[s] = "LIVE"
                /\ Cardinality(speakers("opening")) + Cardinality(speakers("main"))
                      = IF "SPEAKING" \in {opening[s].status, main[s].status} THEN 1 ELSE 0
  BY <1>1, StepsKeepOrder, OneSpeaker
<1> QED BY <1>1, Invariant, PTL DEF Spec, SegmentsInOrder

-----------------------------------------------------------------------------
\* What is active, and what was active when it was given out.  The console's
\* preparations name no session.

LEMMA ArriveKeepsSingle ==
  ASSUME IInv, Single, Naming = {}, NEW p \in Prepares, NEW s \in Sessions, ArrivePrepare(p, s)
  PROVE  Single'
<1>1. /\ target' = [target EXCEPT ![p] = s] /\ known' = [known EXCEPT ![p] = version[s]]
      /\ status' = [status EXCEPT ![s] = IF @ = "none" THEN "CREATED" ELSE @]
      /\ Goto(p, "queued") /\ version' = version /\ Chooses(p, s)
  BY DEF ArrivePrepare
<1>2. /\ status \in [Sessions -> Statuses \cup {"none"}] /\ target \in [Commands -> Nat]
      /\ known \in [Commands -> Nat] /\ version \in [Sessions -> Nat] /\ p \in Commands
  BY CommandsApart DEF IInv, Types
<1>3. (Mine # {} /\ s \in Mine) \/ (Mine = {} /\ status[s] = "none")
  <2>1. CASE Mine # {} /\ s = FirstActive
    <3>1. PICK t \in Mine : TRUE
      BY <2>1
    <3>2. \A u \in Mine : t <= u
      BY DEF Single, Mine, Sessions
    <3>3. FirstActive \in Mine
      BY <3>1, <3>2 DEF FirstActive
    <3> QED BY <2>1, <3>3
  <2>2. CASE Mine = {} /\ ~Created(s)
    BY <2>2 DEF Created
  <2> QED BY <1>1, <2>1, <2>2 DEF Chooses
<1>4. status'[s] \in Active /\ \A t \in Sessions : t # s => status'[t] = status[t]
  BY <1>1, <1>2, <1>3 DEF Mine, Active, Statuses
<1>5. \A t \in Mine' : t = s
  BY <1>3, <1>4 DEF Mine, Single
<1>6. pc'[p] = "queued" /\ \A q \in Commands : q # p => pc'[q] = pc[q]
  BY <1>1, <1>2, OneGoes
<1>7. ASSUME NEW q \in Prepares, pc'[q] = "queued"
      PROVE  /\ known'[q] <= version'[target'[q]]
             /\ known'[q] = version'[target'[q]] => status'[target'[q]] \in Active
  <2>1. CASE q = p
    <3>1. known'[q] = version'[target'[q]] /\ target'[q] = s /\ version[s] \in Nat
      BY <1>1, <1>2, <2>1
    <3> QED BY <1>1, <1>4, <3>1
  <2>2. CASE q # p
    <3>1. q \in Commands /\ pc[q] = "queued"
      BY <1>6, <1>7, <2>2, CommandsApart
    <3>2. target'[q] = target[q] /\ known'[q] = known[q] /\ target[q] \in Sessions
      BY <1>1, <1>2, <2>2, <3>1 DEF IInv, Types
    <3> QED BY <1>1, <1>4, <3>1, <3>2 DEF Single
  <2> QED BY <2>1, <2>2
<1> QED BY <1>5, <1>7 DEF Single

\* No other step makes a session active.
LEMMA OthersKeepSingle ==
  ASSUME IInv, Single,
         \/ UNCHANGED sessionVars
         \/ \E s \in Sessions, st \in Statuses, n \in Nat \ {0} : status[s] \in Active /\ Save(s, st, n),
         \A p \in Prepares : pc'[p] = "queued" =>
            pc[p] = "queued" /\ target'[p] = target[p] /\ known'[p] = known[p]
  PROVE  Single'
<1>1. /\ status \in [Sessions -> Statuses \cup {"none"}] /\ version \in [Sessions -> Nat]
      /\ \A p \in Prepares : known[p] \in Nat /\ (pc[p] = "queued" => target[p] \in Sessions)
  BY CommandsApart DEF IInv, Types
<1>2. CASE UNCHANGED sessionVars
  <2>1. UNCHANGED <<status, version>>
    BY <1>2 DEF sessionVars
  <2>2. Mine' = Mine
    BY <2>1 DEF Mine
  <2> QED BY <2>1, <2>2 DEF Single
<1>3. ASSUME NEW s \in Sessions, NEW st \in Statuses, NEW n \in Nat \ {0},
             status[s] \in Active, Save(s, st, n)
      PROVE  Single'
  <2>1. /\ status'[s] = st /\ version'[s] = version[s] + n
        /\ \A t \in Sessions : t # s => status'[t] = status[t] /\ version'[t] = version[t]
    BY <1>3, OneSaved
  <2>2. \A t \in Mine' : t \in Mine
    BY <1>3, <2>1 DEF Mine
  <2>3. ASSUME NEW p \in Prepares, pc'[p] = "queued"
        PROVE  /\ known'[p] <= version'[target'[p]]
               /\ known'[p] = version'[target'[p]] => status'[target'[p]] \in Active
    <3>1. /\ pc[p] = "queued" /\ target'[p] = target[p] /\ known'[p] = known[p]
          /\ target[p] \in Sessions /\ known[p] \in Nat /\ version[target[p]] \in Nat
      BY <1>1, <2>3
    <3>2. known[p] <= version[target[p]]
      BY <3>1 DEF Single
    <3>3. CASE target[p] = s
      BY <1>3, <2>1, <3>1, <3>2, <3>3
    <3>4. CASE target[p] # s
      BY <2>1, <3>1, <3>2, <3>4 DEF Single
    <3> QED BY <3>3, <3>4
  <2> QED BY <2>2, <2>3 DEF Single
<1> QED BY <1>2, <1>3

LEMMA OthersWait ==
  ASSUME IInv, NEW c \in Commands, NEW step, step # "queued", Goto(c, step),
         target' = target \/ \E x : target' = [target EXCEPT ![c] = x],
         known' = known \/ \E n : known' = [known EXCEPT ![c] = n]
  PROVE  \A p \in Prepares : pc'[p] = "queued" =>
            pc[p] = "queued" /\ target'[p] = target[p] /\ known'[p] = known[p]
<1>1. target \in [Commands -> Nat] /\ known \in [Commands -> Nat]
  BY DEF IInv, Types
<1>2. pc'[c] = step /\ \A d \in Commands : d # c => pc'[d] = pc[d]
  BY OneGoes
<1>3. \A d \in Commands : d # c => target'[d] = target[d]
  BY <1>1
<1>4. \A d \in Commands : d # c => known'[d] = known[d]
  BY <1>1
<1> QED BY <1>2, <1>3, <1>4, CommandsApart

\* The steps of a task that is not at its preparation.
LEMMA StartKeepsSingle ==
  ASSUME IInv, Single, NEW c \in Commands,
         \/ c \in Starts /\ (BeginStart(c) \/ StepStart(c) \/ FailStart(c) \/ GoLive(c))
         \/ RetryOpening(c) \/ RetryMain(c) \/ FailOpening(c) \/ EndOpening(c) \/ EndMain(c)
  PROVE  Single'
<1> DEFINE s == target[c]
           Saves == \/ UNCHANGED sessionVars
                    \/ \E t \in Sessions, st \in Statuses, n \in Nat \ {0} :
                          status[t] \in Active /\ Save(t, st, n)
           Waits == \A p \in Prepares : pc'[p] = "queued" =>
                       pc[p] = "queued" /\ target'[p] = target[p] /\ known'[p] = known[p]
<1>1. /\ pc[c] # "new" => s \in Sessions
      /\ pc[c] \in Steps => status[s] = "STARTING"
      /\ {"STARTING", "START_FAILED", "LIVE", "READY"} \subseteq Statuses
      /\ {"STARTING", "START_FAILED", "LIVE", "READY"} \subseteq Active
  BY DEF IInv, Types, Owned, Statuses, Active
<1>2. CASE c \in Starts /\ BeginStart(c)
  <2>1. s \in Sessions
    BY <1>1, <1>2 DEF BeginStart
  <2>2. Saves
    <3>1. CASE UNCHANGED sessionVars
      BY <3>1
    <3>2. CASE /\ status[s] \in {"READY", "START_FAILED"}
               /\ Save(s, "STARTING", IF status[s] = "START_FAILED" THEN 3 ELSE 2)
      <4>1. (IF status[s] = "START_FAILED" THEN 3 ELSE 2) \in Nat \ {0}
        OBVIOUS
      <4> QED BY <1>1, <2>1, <3>2, <4>1
    <3> QED BY <1>2, <3>1, <3>2 DEF BeginStart
  <2>3. PICK step \in {"obsStatus", "done"} :
            /\ Goto(c, step) /\ target' = target
            /\ known' = known \/ \E n : known' = [known EXCEPT ![c] = n]
    BY <1>2 DEF BeginStart
  <2>4. Waits
    BY <2>3, OthersWait
  <2> HIDE DEF Saves, Waits
  <2> QED BY <2>2, <2>4, OthersKeepSingle DEF Saves, Waits
<1>3. CASE c \in Starts /\ (StepStart(c) \/ FailStart(c) \/ GoLive(c))
  <2>1. pc[c] \in Steps /\ s \in Sessions
    BY <1>1, <1>3 DEF StepStart, FailStart, GoLive, Steps
  <2>2. Saves
    <3>1. CASE StepStart(c)
      BY <3>1 DEF StepStart
    <3>2. CASE \E st \in {"START_FAILED", "LIVE"}, n \in {1, 2} : Save(s, st, n)
      BY <1>1, <2>1, <3>2
    <3> QED BY <1>3, <3>1, <3>2 DEF FailStart, GoLive, StartsOpening
  <2>3. PICK step \in Steps \cup {"opening", "done"} : Goto(c, step) /\ UNCHANGED <<target, known>>
    <3>1. CASE StepStart(c)
      <4>1. Continuation(c) \in Steps
        BY <3>1 DEF StepStart, Continuation, Steps
      <4> QED BY <3>1, <4>1 DEF StepStart
    <3>2. CASE FailStart(c) \/ GoLive(c)
      BY <3>2 DEF FailStart, GoLive, StartsOpening
    <3> QED BY <1>3, <3>1, <3>2
  <2>4. Waits
    BY <2>3, OthersWait DEF Steps
  <2> HIDE DEF Saves, Waits
  <2> QED BY <2>2, <2>4, OthersKeepSingle DEF Saves, Waits
<1>4. CASE RetryOpening(c) \/ RetryMain(c) \/ FailOpening(c) \/ EndOpening(c) \/ EndMain(c)
  <2>1. s \in Sessions
    BY <1>1, <1>4 DEF RetryOpening, RetryMain, FailOpening, EndOpening, EndMain
  <2>2. Saves
    BY <1>1, <1>4, <2>1
    DEF RetryOpening, RetryMain, FailOpening, EndOpening, EndMain, MainAllowed, Attach
  <2>3. PICK step \in {"opening", "main", "done"} : Goto(c, step) /\ UNCHANGED <<target, known>>
    BY <1>4 DEF RetryOpening, RetryMain, FailOpening, EndOpening, EndMain
  <2>4. Waits
    BY <2>3, OthersWait
  <2> HIDE DEF Saves, Waits
  <2> QED BY <2>2, <2>4, OthersKeepSingle DEF Saves, Waits
<1> QED BY <1>2, <1>3, <1>4

LEMMA PrepareKeepsSingle ==
  ASSUME IInv, Single, NEW p \in Prepares,
         \/ EnterPrepare(p) \/ CheckYouTube(p) \/ CheckObs(p) \/ EndPrepare(p) \/ CancelPrepare(p)
  PROVE  Single'
<1> DEFINE s == target[p]
           Saves == \/ UNCHANGED sessionVars
                    \/ \E t \in Sessions, st \in Statuses, n \in Nat \ {0} :
                          status[t] \in Active /\ Save(t, st, n)
           Waits == \A q \in Prepares : pc'[q] = "queued" =>
                       pc[q] = "queued" /\ target'[q] = target[q] /\ known'[q] = known[q]
<1>1. /\ p \in Commands /\ (pc[p] # "new" => s \in Sessions)
      /\ pc[p] \in Checks => status[s] = "PREPARING"
      /\ {"PREPARING", "READY", "FAILED"} \subseteq Statuses /\ "PREPARING" \in Active
  BY CommandsApart DEF IInv, Types, Owned, Statuses, Active
<1>2. CASE EnterPrepare(p)
  <2>1. pc[p] = "queued" /\ s \in Sessions
    BY <1>1, <1>2 DEF EnterPrepare
  <2>2. Saves
    <3>1. Preparable(p) => status[s] \in Active
      BY <2>1 DEF Preparable, Single
    <3> QED BY <1>1, <1>2, <2>1, <3>1 DEF EnterPrepare
  <2>3. PICK step \in {"signIn", "done"} :
            /\ Goto(p, step) /\ target' = target
            /\ known' = known \/ \E n : known' = [known EXCEPT ![p] = n]
    BY <1>2 DEF EnterPrepare
  <2>4. Waits
    BY <1>1, <2>3, OthersWait
  <2> HIDE DEF Saves, Waits
  <2> QED BY <2>2, <2>4, OthersKeepSingle DEF Saves, Waits
<1>3. CASE CheckYouTube(p)
  <2>1. UNCHANGED sessionVars
    BY <1>3 DEF CheckYouTube
  <2>2. PICK step \in Checks : Goto(p, step) /\ UNCHANGED <<target, known>>
    BY <1>3 DEF CheckYouTube, Checks
  <2>3. Waits
    BY <1>1, <2>2, OthersWait DEF Checks
  <2> QED BY <2>1, <2>3, OthersKeepSingle
<1>4. CASE CheckObs(p)
  BY <1>4, OthersKeepSingle DEF CheckObs, taskVars
<1>5. CASE EndPrepare(p) \/ CancelPrepare(p)
  <2>1. PICK st \in {"READY", "FAILED"} : Prepared(p, st)
    BY <1>5 DEF EndPrepare, CancelPrepare
  <2>2. pc[p] \in Checks /\ s \in Sessions
    BY <1>1, <1>5 DEF EndPrepare, CancelPrepare, Checks
  <2>3. Saves
    BY <1>1, <2>1, <2>2 DEF Prepared
  <2>4. Goto(p, "done") /\ UNCHANGED <<target, known>>
    BY <2>1 DEF Prepared
  <2>5. Waits
    BY <1>1, <2>4, OthersWait
  <2> HIDE DEF Saves, Waits
  <2> QED BY <2>3, <2>5, OthersKeepSingle DEF Saves, Waits
<1> QED BY <1>2, <1>3, <1>4, <1>5

LEMMA StepKeepsSingle == Naming = {} /\ IInv /\ Single /\ [Next]_vars => Single'
<1> SUFFICES ASSUME Naming = {}, IInv, Single, [Next]_vars PROVE Single'
  OBVIOUS
<1>1. CASE UNCHANGED vars \/ WorldMoves
  BY <1>1, OthersKeepSingle DEF vars, WorldMoves, taskVars
<1>2. ASSUME NEW c \in Commands, TaskNext(c)
      PROVE  Single'
  BY <1>2, StartKeepsSingle, PrepareKeepsSingle DEF TaskNext
<1>3. ASSUME NEW p \in Prepares, CancelPrepare(p)
      PROVE  Single'
  BY <1>3, PrepareKeepsSingle
<1>4. ASSUME NEW s \in Sessions, EndBegins(s) \/ EndFinishes(s)
      PROVE  Single'
  <2>1. /\ "LIVE" \in Active /\ "ENDING" \in Active /\ "ENDING" \in Statuses /\ "ENDED" \in Statuses
    BY DEF Active, Statuses
  <2>2. \E st \in Statuses, n \in Nat \ {0} : status[s] \in Active /\ Save(s, st, n)
    BY <1>4, <2>1 DEF EndBegins, EndFinishes
  <2>3. UNCHANGED <<pc, target, known>>
    BY <1>4 DEF EndBegins, EndFinishes, taskVars
  <2> QED BY <2>2, <2>3, OthersKeepSingle
<1>5. ASSUME NEW s \in Sessions, NEW p \in Prepares, ArrivePrepare(p, s)
      PROVE  Single'
  BY <1>5, ArriveKeepsSingle
<1>6. ASSUME NEW s \in Sessions, NEW c \in Commands, Approve(c, s) \/ SeeSegment(c, s)
      PROVE  Single'
  <2>1. UNCHANGED sessionVars /\ \E x : target' = [target EXCEPT ![c] = x]
    BY <1>6 DEF Approve, SeeSegment
  <2>2. PICK step \in {"accepted", "sawOpening", "sawMain"} :
            Goto(c, step) /\ \E n : known' = [known EXCEPT ![c] = n]
    BY <1>6 DEF Approve, SeeSegment
  <2>3. \A p \in Prepares : pc'[p] = "queued" =>
            pc[p] = "queued" /\ target'[p] = target[p] /\ known'[p] = known[p]
    BY <2>1, <2>2, OthersWait
  <2> QED BY <2>1, <2>3, OthersKeepSingle
<1> QED BY <1>1, <1>2, <1>3, <1>4, <1>5, <1>6, CommandsApart DEF Next

\* A preparation that waits for the lock may find that its session has failed, or
\* was ended, and another is active; then it was saved meanwhile and is refused.
THEOREM OneActiveSessionCorrect ==
  ASSUME Naming = {}
  PROVE  Spec => []OneActiveSession
<1>1. Init => Single
  BY CommandsApart DEF Init, Single, Mine, Active, Statuses
<1>2. IInv /\ Single /\ [Next]_vars => Single'
  BY StepKeepsSingle
<1>3. Single => OneActiveSession
  <2> SUFFICES ASSUME Single PROVE Cardinality(Mine) <= 1
    BY DEF OneActiveSession
  <2>1. CASE Mine = {}
    BY <2>1, FS_EmptySet
  <2>2. ASSUME NEW s \in Mine
        PROVE  Cardinality(Mine) <= 1
    <3>1. Mine = {s}
      BY <2>2 DEF Single
    <3>2. Cardinality({s}) = 1
      BY FS_Singleton
    <3> QED BY <3>1, <3>2
  <2> QED BY <2>1, <2>2
<1> QED BY <1>1, <1>2, <1>3, Invariant, PTL DEF Spec

-----------------------------------------------------------------------------
(***************************************************************************)
(* The refinement of SessionLife.  Each action saves one session, along a  *)
(* path of the table that depends on what the invariant knows of its       *)
(* status, and leaves the others alone.                                    *)
(***************************************************************************)

Lives(s) == Life(s)!Next \/ UNCHANGED <<LifeStatus(s), version[s]>>

\* The session goes from a to b with n saves.
Leads(a, b, n) ==
    \/ a \in {"CREATED", "READY", "FAILED"} /\ b = "PREPARING" /\ n = 1
    \/ a = "PREPARING" /\ b \in {"READY", "FAILED"} /\ n = 1
    \/ a = "READY" /\ b = "STARTING" /\ n = 2
    \/ a = "START_FAILED" /\ b = "STARTING" /\ n = 3
    \/ a = "STARTING" /\ b = "START_FAILED" /\ n = 1
    \/ a = "STARTING" /\ b = "LIVE" /\ n \in {1, 2}
    \/ a = "LIVE" /\ b = "LIVE" /\ n = 1
    \/ a = "LIVE" /\ b = "ENDING" /\ n = 2
    \/ a = "ENDING" /\ b = "ENDED" /\ n = 1

LEMMA SavedAs ==
  ASSUME NEW s, NEW S, NEW a \in S
  PROVE  /\ a \in Life(s)!Statuses => \A b \in Life(s)!Successors[a] : b \in Life(s)!Saved(S)
         /\ a = "LIVE" => "LIVE" \in Life(s)!Saved(S)
  BY DEF Life!Saved

\* The paths of two and three saves.
LEMMA Paths ==
  ASSUME NEW s
  PROVE  /\ "STARTING" \in Life(s)!Saved(Life(s)!Saved({"READY"}))
         /\ "STARTING" \in Life(s)!Saved(Life(s)!Saved(Life(s)!Saved({"START_FAILED"})))
         /\ "LIVE" \in Life(s)!Saved(Life(s)!Saved({"STARTING"}))
         /\ "EMERGENCY_STOPPING" \in Life(s)!Saved(Life(s)!Saved({"LIVE"}))
<1>1. "START_APPROVED" \in Life(s)!Saved({"READY"}) /\ "READY" \in Life(s)!Saved({"START_FAILED"})
  BY SavedAs DEF Life!Successors, Life!Statuses
<1>2. "START_APPROVED" \in Life(s)!Saved(Life(s)!Saved({"START_FAILED"}))
  BY <1>1, SavedAs DEF Life!Successors, Life!Statuses
<1>3. "LIVE" \in Life(s)!Saved({"STARTING"})
  BY SavedAs DEF Life!Successors, Life!Statuses
<1>4. "EMERGENCY_STOP_REQUESTED" \in Life(s)!Saved({"LIVE"})
  BY SavedAs DEF Life!Successors, Life!Statuses
<1>5. "STARTING" \in Life(s)!Saved(Life(s)!Saved({"READY"}))
  BY <1>1, SavedAs DEF Life!Successors, Life!Statuses
<1>6. "STARTING" \in Life(s)!Saved(Life(s)!Saved(Life(s)!Saved({"START_FAILED"})))
  BY <1>2, SavedAs DEF Life!Successors, Life!Statuses
<1>7. "LIVE" \in Life(s)!Saved(Life(s)!Saved({"STARTING"}))
  BY <1>3, SavedAs
<1>8. "EMERGENCY_STOPPING" \in Life(s)!Saved(Life(s)!Saved({"LIVE"}))
  BY <1>4, SavedAs DEF Life!Successors, Life!Statuses
<1> QED BY <1>5, <1>6, <1>7, <1>8

\* What a path of the session's own statuses is in the table.
LEMMA LeadsAlongTable ==
  ASSUME IInv, NEW s \in Sessions, NEW st \in Statuses, NEW n \in Nat, Leads(status[s], st, n),
         status'[s] = st, version'[s] = version[s] + n
  PROVE  Life(s)!Save
<1> DEFINE One == Life(s)!Saved({LifeStatus(s)})
<1>1. version'[s] = version[s] + n /\ version[s] \in Nat
  BY DEF IInv, Types
<1>2. CASE n = 1 /\ LifeStatus(s)' \in One
  BY <1>1, <1>2 DEF Life!Save
<1>3. CASE n = 2 /\ LifeStatus(s)' \in Life(s)!Saved(One)
  BY <1>1, <1>3 DEF Life!Save
<1>4. CASE n = 3 /\ LifeStatus(s)' \in Life(s)!Saved(Life(s)!Saved(One))
  BY <1>1, <1>4 DEF Life!Save
<1>5. /\ status[s] \notin {"ENDING", "ENDED"} => LifeStatus(s) = status[s]
      /\ status[s] = "ENDING" => LifeStatus(s) = "EMERGENCY_STOPPING"
      /\ st \notin {"ENDING", "ENDED"} => LifeStatus(s)' = st
      /\ st = "ENDING" => LifeStatus(s)' = "EMERGENCY_STOPPING"
      /\ st = "ENDED" => LifeStatus(s)' = "EMERGENCY_STOPPED"
  BY DEF LifeStatus
<1>6. CASE n = 1
  <2>1. \/ LifeStatus(s) \in Life(s)!Statuses /\ LifeStatus(s)' \in Life(s)!Successors[LifeStatus(s)]
        \/ LifeStatus(s) = "LIVE" /\ LifeStatus(s)' = "LIVE"
    BY <1>5, <1>6 DEF Leads, Life!Successors, Life!Statuses
  <2>2. LifeStatus(s)' \in One
    BY <2>1, SavedAs
  <2> QED BY <1>2, <1>6, <2>2
<1>7. CASE n = 2
  BY <1>3, <1>5, <1>7, Paths DEF Leads
<1>8. CASE n = 3
  BY <1>4, <1>5, <1>8, Paths DEF Leads
<1> QED BY <1>6, <1>7, <1>8 DEF Leads

\* A save of s, and of no other session.
LEMMA SaveLives ==
  ASSUME IInv, NEW s \in Sessions, NEW st \in Statuses, NEW n \in Nat, Save(s, st, n),
         Leads(status[s], st, n)
  PROVE  \A t \in Sessions : Lives(t)
<1>1. status'[s] = st /\ version'[s] = version[s] + n
  BY OneSaved
<1>2. Life(s)!Save
  BY <1>1, LeadsAlongTable
<1>3. ASSUME NEW t \in Sessions, t # s
      PROVE  UNCHANGED <<LifeStatus(t), version[t]>>
  <2>1. status'[t] = status[t] /\ version'[t] = version[t]
    BY <1>3, OneSaved
  <2> QED BY <2>1 DEF LifeStatus
<1> QED BY <1>2, <1>3 DEF Lives, Life!Next

\* Nothing is saved.
LEMMA RestLives ==
  ASSUME UNCHANGED sessionVars
  PROVE  \A t \in Sessions : Lives(t)
  BY DEF sessionVars, Lives, LifeStatus

LEMMA ArriveLives ==
  ASSUME IInv, NEW p \in Prepares, NEW s \in Sessions, ArrivePrepare(p, s)
  PROVE  \A t \in Sessions : Lives(t)
<1>1. status \in [Sessions -> Statuses \cup {"none"}]
  BY DEF IInv, Types
<1>2. version' = version /\ status' = [status EXCEPT ![s] = IF @ = "none" THEN "CREATED" ELSE @]
  BY DEF ArrivePrepare
<1>3. ASSUME NEW t \in Sessions
      PROVE  status'[t] = status[t] \/ (status[t] = "none" /\ status'[t] = "CREATED")
  <2>1. CASE t = s BY <1>1, <1>2, <2>1
  <2>2. CASE t # s BY <1>1, <1>2, <2>2
  <2> QED BY <2>1, <2>2
<1>4. ASSUME NEW t \in Sessions
      PROVE  Lives(t)
  <2>1. CASE status'[t] = status[t]
    BY <1>2, <2>1 DEF Lives, LifeStatus
  <2>2. CASE status[t] = "none" /\ status'[t] = "CREATED"
    BY <1>2, <2>2 DEF Lives, LifeStatus, Life!Next, Life!Create
  <2> QED BY <1>3, <1>4, <2>1, <2>2
<1> QED BY <1>4

LEMMA PrepareLives ==
  ASSUME IInv, NEW p \in Prepares, EnterPrepare(p) \/ EndPrepare(p) \/ CancelPrepare(p)
  PROVE  \A t \in Sessions : Lives(t)
<1>1. p \in Commands /\ (pc[p] # "new" => target[p] \in Sessions)
  BY CommandsApart DEF IInv, Types
<1>2. CASE EnterPrepare(p) /\ Preparable(p)
  <2>1. Save(target[p], "PREPARING", 1) /\ target[p] \in Sessions
    BY <1>1, <1>2 DEF EnterPrepare
  <2>2. Leads(status[target[p]], "PREPARING", 1)
    BY <1>2 DEF Preparable, Leads
  <2> QED BY <2>1, <2>2, SaveLives DEF Statuses
<1>3. CASE EnterPrepare(p) /\ ~Preparable(p)
  BY <1>3, RestLives DEF EnterPrepare
<1>4. CASE EndPrepare(p) \/ CancelPrepare(p)
  <2>1. pc[p] \in Checks /\ (Prepared(p, "READY") \/ Prepared(p, "FAILED"))
    BY <1>4 DEF EndPrepare, CancelPrepare, Checks
  <2>2. target[p] \in Sessions /\ status[target[p]] = "PREPARING"
    BY <1>1, <2>1 DEF IInv, Owned, Checks
  <2>3. PICK st \in {"READY", "FAILED"} : Save(target[p], st, 1)
    BY <2>1 DEF Prepared
  <2>4. Leads(status[target[p]], st, 1)
    BY <2>2 DEF Leads
  <2> QED BY <2>2, <2>3, <2>4, SaveLives DEF Statuses
<1> QED BY <1>2, <1>3, <1>4

LEMMA StartLives ==
  ASSUME IInv, NEW c \in Starts, BeginStart(c) \/ FailStart(c) \/ GoLive(c)
  PROVE  \A t \in Sessions : Lives(t)
<1>1. c \in Commands /\ (pc[c] # "new" => target[c] \in Sessions)
  BY CommandsApart DEF IInv, Types
<1>2. CASE BeginStart(c)
  <2>1. CASE UNCHANGED sessionVars
    BY <2>1, RestLives
  <2>2. CASE ~UNCHANGED sessionVars
    <3>1. target[c] \in Sessions /\ status[target[c]] \in {"READY", "START_FAILED"}
      BY <1>1, <1>2, <2>2 DEF BeginStart
    <3>2. Save(target[c], "STARTING", IF status[target[c]] = "START_FAILED" THEN 3 ELSE 2)
      BY <1>2, <2>2 DEF BeginStart
    <3>3. Leads(status[target[c]], "STARTING", IF status[target[c]] = "START_FAILED" THEN 3 ELSE 2)
      BY <3>1 DEF Leads
    <3> QED BY <3>1, <3>2, <3>3, SaveLives DEF Statuses
  <2> QED BY <2>1, <2>2
<1>3. CASE FailStart(c) \/ GoLive(c)
  <2>1. pc[c] \in Steps
    BY <1>3 DEF FailStart, GoLive, Steps
  <2>2. target[c] \in Sessions /\ status[target[c]] = "STARTING"
    BY <1>1, <2>1 DEF IInv, Owned, Steps
  <2>3. \/ Save(target[c], "START_FAILED", 1)
        \/ Save(target[c], "LIVE", 1)
        \/ Save(target[c], "LIVE", 2)
    BY <1>3 DEF FailStart, GoLive, StartsOpening
  <2>4. /\ Leads(status[target[c]], "START_FAILED", 1)
        /\ Leads(status[target[c]], "LIVE", 1) /\ Leads(status[target[c]], "LIVE", 2)
    BY <2>2 DEF Leads
  <2> QED BY <2>2, <2>3, <2>4, SaveLives DEF Statuses
<1> QED BY <1>2, <1>3

LEMMA EndOpeningLives ==
  ASSUME IInv, NEW c \in Starts \cup Retries, EndOpening(c)
  PROVE  \A t \in Sessions : Lives(t)
<1>1. CASE UNCHANGED sessionVars
  BY <1>1, RestLives
<1>2. CASE ~UNCHANGED sessionVars
  <2>1. target[c] \in Sessions
    BY CommandsApart DEF EndOpening, IInv, Types
  <2>2. status[target[c]] = "LIVE" /\ Save(target[c], "LIVE", 1)
    BY <1>2 DEF EndOpening, MainAllowed, Attach
  <2>3. Leads(status[target[c]], "LIVE", 1)
    BY <2>2 DEF Leads
  <2> QED BY <2>1, <2>2, <2>3, SaveLives DEF Statuses
<1> QED BY <1>1, <1>2

LEMMA EndLives ==
  ASSUME IInv, NEW s \in Sessions, EndBegins(s) \/ EndFinishes(s)
  PROVE  \A t \in Sessions : Lives(t)
<1>1. CASE EndBegins(s)
  <2>1. Leads(status[s], "ENDING", 2)
    BY <1>1 DEF EndBegins, Leads
  <2> QED BY <1>1, <2>1, SaveLives DEF EndBegins, Statuses
<1>2. CASE EndFinishes(s)
  <2>1. Leads(status[s], "ENDED", 1)
    BY <1>2 DEF EndFinishes, Leads
  <2> QED BY <1>2, <2>1, SaveLives DEF EndFinishes, Statuses
<1> QED BY <1>1, <1>2

LEMMA NextLives == IInv /\ [Next]_vars => \A t \in Sessions : Lives(t)
<1> SUFFICES ASSUME IInv, [Next]_vars PROVE \A t \in Sessions : Lives(t)
  OBVIOUS
<1>1. CASE UNCHANGED vars \/ WorldMoves
  <2>1. UNCHANGED sessionVars BY <1>1 DEF vars, WorldMoves, sessionVars
  <2> QED BY <2>1, RestLives
<1>2. ASSUME NEW p \in Prepares, EnterPrepare(p) \/ EndPrepare(p) \/ CancelPrepare(p)
      PROVE  \A t \in Sessions : Lives(t)
  BY <1>2, PrepareLives
<1>3. ASSUME NEW c \in Commands,
             \/ CheckYouTube(c) \/ CheckObs(c) \/ StepStart(c) \/ RetryOpening(c) \/ RetryMain(c)
             \/ FailOpening(c) \/ EndMain(c)
      PROVE  \A t \in Sessions : Lives(t)
  <2>1. UNCHANGED sessionVars
    BY <1>3 DEF CheckYouTube, CheckObs, StepStart, RetryOpening, RetryMain, FailOpening, EndMain
  <2> QED BY <2>1, RestLives
<1>4. ASSUME NEW c \in Starts, BeginStart(c) \/ FailStart(c) \/ GoLive(c)
      PROVE  \A t \in Sessions : Lives(t)
  BY <1>4, StartLives
<1>5. ASSUME NEW c \in Starts \cup Retries, EndOpening(c)
      PROVE  \A t \in Sessions : Lives(t)
  BY <1>5, EndOpeningLives
<1>6. ASSUME NEW s \in Sessions, EndBegins(s) \/ EndFinishes(s)
      PROVE  \A t \in Sessions : Lives(t)
  BY <1>6, EndLives
<1>7. ASSUME NEW s \in Sessions, NEW p \in Prepares, ArrivePrepare(p, s)
      PROVE  \A t \in Sessions : Lives(t)
  BY <1>7, ArriveLives
<1>8. ASSUME NEW s \in Sessions, NEW c, Approve(c, s) \/ SeeSegment(c, s)
      PROVE  \A t \in Sessions : Lives(t)
  <2>1. UNCHANGED sessionVars BY <1>8 DEF Approve, SeeSegment
  <2> QED BY <2>1, RestLives
<1> QED BY <1>1, <1>2, <1>3, <1>4, <1>5, <1>6, <1>7, <1>8, CommandsApart DEF Next, TaskNext

\* Whatever preparations, starts and retries overlap, a session goes only from status to
\* status as _ALLOWED_TRANSITIONS has it and an Activity is attached only while it is LIVE,
\* so that no task dies of a ValueError in the middle of its command
\* (StreamSession.transition, attach_opening, attach_main_segment).
THEOREM ImplementsLifeCorrect == Spec => ImplementsLife
<1>1. Init => \A s \in Sessions : Life(s)!Init
  BY DEF Init, LifeStatus, Life!Init
<1>2. IInv /\ [Next]_vars =>
        [\A s \in Sessions : Life(s)!Next \/ UNCHANGED <<LifeStatus(s), version[s]>>]_sessionVars
  BY NextLives DEF Lives
<1> QED BY <1>1, <1>2, Invariant, PTL DEF Spec, ImplementsLife
=============================================================================
