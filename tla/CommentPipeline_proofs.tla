------------------------- MODULE CommentPipeline_proofs -------------------------
(***************************************************************************)
(* Theorems about CommentPipeline, for any number of comments, pages and   *)
(* retries and any sizes of page and pool.                                 *)
(*                                                                         *)
(* The inductive invariant has two halves.  Chat: what was seen is a       *)
(* beginning of the chat, and the page holds the undecided part of it that *)
(* was kept.  Answers: a comment is in the pool, or in a ranking, or       *)
(* selected, in this order and once; while its answer is spoken by one     *)
(* task its reservation is held or has run out, and once it was heard the  *)
(* reservation cannot be had again.                                        *)
(***************************************************************************)
EXTENDS CommentPipeline, FiniteSetTheorems, TLAPS

Undecided == {c \in seen : decision[c] = "none"}

\* The chat up to some comment was seen, and only that was decided on.
SeenIsPrefix ==
    /\ \E k \in 0..posted : seen = 1..k
    /\ \A c \in Comments : decision[c] # "none" => c \in seen

\* What waits in the page is different comments, seen and undecided.
PageWaits ==
    /\ \A i \in DOMAIN page : page[i] \in Undecided
    /\ \A i, j \in DOMAIN page : page[i] = page[j] => i = j
    /\ pollerPc = "moderating" => page # <<>>
    /\ pollerPc \notin {"page", "moderating"} => page = <<>> /\ dropping = 0

Chat == SeenIsPrefix /\ PageWaits /\ SeenIsAccountedFor

\* How far a comment is on its way to its selection.
OnItsWay ==
    \A c \in Comments :
        /\ decision[c] = "none" => pc[c] = "none"
        /\ pc[c] \in {"none", "created"} => candidate[c] = "none" /\ selection[c] = "none"
        /\ candidate[c] \in {"pending", "ranked"} => selection[c] = "none"
        /\ c \in pool => selection[c] = "none" /\ pc[c] \notin {"none", "created"}

\* The selection lock: one task ranks, and the pool it ranks is its own.
OneRanks ==
    /\ \A c \in Comments : pc[c] = "ranking" <=> ranking = c
    /\ pool # {} => ranking # 0

\* What the response's status says of the reservation.
Matches(st, sel, retryable) ==
    \/ st = "none" /\ sel = "none"
    \/ st = "SPEAKING" /\ sel \in {"reserved", "expired"}
    \/ st = "COMPLETED" /\ sel = "consumed"
    \/ st = "FAILED" /\ sel = IF retryable THEN "released" ELSE "expired"

Agree ==
    \A c \in Comments :
        /\ Matches(response[c].status, selection[c], response[c].retryable)
        /\ heard[c] <= 1
        /\ heard[c] = 1 => /\ selection[c] \in {"consumed", "expired"}
                           /\ response[c].status # "SPEAKING"

Speaks(t, c) == pc[t] = "speaking" /\ subject[t] = c

\* An answer that is spoken has one task that speaks it.
Speakers ==
    /\ \A t \in Tasks : pc[t] = "speaking" =>
          subject[t] \in Comments /\ response[subject[t]].status = "SPEAKING"
    /\ \A c \in Comments : response[c].status = "SPEAKING" => \E t \in Tasks : Speaks(t, c)
    /\ \A c \in Comments : \A t, u \in Tasks : Speaks(t, c) /\ Speaks(u, c) => t = u
    /\ \A r \in Retries : pc[r] = "created" => subject[r] \in Comments

Answers == OnItsWay /\ OneRanks /\ Agree /\ Speakers

Candidates == {"none", "pending", "ranked", "selected", "expired"}
Selections == {"none", "reserved", "released", "consumed", "expired"}
Responses == [status : {"none", "SPEAKING", "COMPLETED", "FAILED"},
              attempt : Nat, retryable : BOOLEAN]
Steps == {"none", "created", "waiting", "ranking", "speaking", "done"}
Kept(cand) == {c \in Comments : cand[c] # "none"}

Types ==
    /\ ChatTypeOK /\ mainDone \in BOOLEAN
    /\ candidate \in [Comments -> Candidates] /\ Cardinality(Kept(candidate)) <= PoolSize
    /\ ranking \in 0..MaxComments /\ pool \subseteq Comments
    /\ selection \in [Comments -> Selections]
    /\ due \in [Comments -> BOOLEAN] /\ selected \in Seq(Comments)
    /\ response \in [Comments -> Responses]
    /\ pc \in [Tasks -> Steps]
    /\ subject \in [Tasks -> 0..MaxComments] /\ expected \in [Tasks -> Nat]
    /\ heard \in [Comments -> Nat]

IInv == Types /\ Chat /\ Answers

-----------------------------------------------------------------------------
(***************************************************************************)
(* The chat.                                                               *)
(***************************************************************************)

LEMMA CommentsAreFinite ==
  ASSUME NEW S \in SUBSET Comments
  PROVE  IsFiniteSet(S) /\ Cardinality(S) \in Nat
<1>1. MaxComments \in Int BY ChatAssumption
<1>2. IsFiniteSet(Comments) BY <1>1, FS_Interval DEF Comments
<1>3. IsFiniteSet(S) BY <1>2, FS_Subset
<1> QED BY <1>3, FS_CardinalityType

LEMMA IntervalSize ==
  ASSUME NEW k \in Nat, NEW p \in Nat, k <= p
  PROVE  /\ IsFiniteSet((k + 1)..p) /\ Cardinality((k + 1)..p) = p - k /\ p - k \in Nat
         /\ Cardinality(1..k) = k
<1>1. /\ IsFiniteSet((k + 1)..p)
      /\ Cardinality((k + 1)..p) = IF k + 1 > p THEN 0 ELSE p - (k + 1) + 1
  BY FS_Interval
<1>2. Cardinality(1..k) = IF 1 > k THEN 0 ELSE k - 1 + 1
  BY FS_Interval
<1> QED BY <1>1, <1>2

\* The comments from k to p, in order.
LEMMA OrderOfInterval ==
  ASSUME NEW k \in Nat, NEW p \in Nat, k <= p
  PROVE  LET s == InOrder((k + 1)..p) IN
         /\ s \in Seq((k + 1)..p) /\ Len(s) = p - k
         /\ \A i, j \in DOMAIN s : s[i] = s[j] => i = j
<1> DEFINE S == (k + 1)..p
           n == p - k
           Ordered(s) == s \in [1..n -> S] /\ \A i, j \in DOMAIN s : i < j => s[i] < s[j]
<1>1. Cardinality(S) = n /\ n \in Nat
  BY IntervalSize
<1>2. Ordered([i \in 1..n |-> k + i])
  <2>1. \A i \in 1..n : k + i \in S OBVIOUS
  <2> QED BY <2>1
<1>3. Ordered(InOrder(S))
  BY <1>1, <1>2 DEF InOrder
<1>4. \A s : Ordered(s) => /\ s \in Seq(S) /\ Len(s) = n
                           /\ \A i, j \in DOMAIN s : s[i] = s[j] => i = j
  <2> SUFFICES ASSUME NEW s, Ordered(s)
               PROVE  /\ s \in Seq(S) /\ Len(s) = n
                      /\ \A i, j \in DOMAIN s : s[i] = s[j] => i = j
    OBVIOUS
  <2>1. s \in Seq(S) /\ Len(s) = n /\ DOMAIN s = 1..n BY <1>1
  <2>2. \A i \in 1..n : s[i] \in Int BY <2>1
  <2>3. \A i, j \in 1..n : i < j => s[i] < s[j] BY <2>1
  <2>4. ASSUME NEW i \in 1..n, NEW j \in 1..n, s[i] = s[j] PROVE i = j
    BY <2>2, <2>3, <2>4
  <2> QED BY <2>1, <2>4
<1> HIDE DEF Ordered
<1> QED BY <1>3, <1>4

LEMMA PageArrivesKeeps ==
  ASSUME ChatTypeOK, Chat, PageArrives, live
  PROVE  ChatTypeOK' /\ Chat' /\ decision' = decision
<1>1. PICK from \in 0..Token : Keep(InOrder({c \in (from + 1)..posted : Unseen(c)}))
  BY DEF PageArrives
<1>2. /\ pollerPc = "fetching" /\ pollerPc' = "page" /\ seen' = seen \cup 1..posted
      /\ UNCHANGED <<posted, live, pollerStatus, attempt, stopSet, dropped, decision>>
  BY DEF PageArrives
<1>3. PICK k \in 0..posted : seen = 1..k
  BY DEF Chat, SeenIsPrefix
<1>4. posted \in Nat /\ k \in Nat /\ k <= posted /\ PerPoll \in Nat \ {0} /\ MaxComments \in Nat
      /\ posted <= MaxComments
  BY <1>3, ChatAssumption DEF ChatTypeOK
<1>5. Token = k
  BY <1>3, <1>4, IntervalSize DEF Token
<1> DEFINE New == (k + 1)..posted
           fresh == InOrder(New)
<1>6. {c \in (from + 1)..posted : Unseen(c)} = New
  BY <1>3, <1>4, <1>5 DEF Unseen
<1>7. /\ fresh \in Seq(New) /\ Len(fresh) = posted - k
      /\ \A i, j \in DOMAIN fresh : fresh[i] = fresh[j] => i = j
  BY <1>4, OrderOfInterval
<1>8. Keep(fresh)
  BY <1>1, <1>6
<1>9. New \subseteq Comments /\ 1..k \subseteq Comments /\ New \cap (1..k) = {}
  BY <1>4 DEF Comments
<1>10. seen' = 1..posted /\ seen' = seen \cup New
  BY <1>2, <1>3, <1>4
<1> HIDE DEF fresh, New
<1> DEFINE n == IF Len(fresh) < PerPoll THEN Len(fresh) ELSE PerPoll
<1>11. /\ page' = SubSeq(fresh, 1, n) /\ n \in 0..Len(fresh) /\ n <= PerPoll
      /\ dropping' = Len(fresh) - Len(page')
  BY <1>4, <1>7, <1>8 DEF Keep, FirstOf
<1>12. /\ page' \in Seq(New) /\ Len(page') = n /\ DOMAIN page' = 1..n
       /\ \A i \in 1..n : page'[i] = fresh[i]
  BY <1>7, <1>11
<1>13. /\ dropping' \in Nat /\ Len(page') + dropping' = posted - k
  BY <1>7, <1>11, <1>12
<1>14. \A c \in New : decision[c] = "none"
  BY <1>3, <1>9 DEF Chat, SeenIsPrefix
<1>15. ChatTypeOK'
  <2>1. page' \in Seq(Comments) BY <1>12, <1>9
  <2>2. seen' \subseteq Comments BY <1>9, <1>10, <1>3
  <2>3. Len(page') <= PerPoll BY <1>11, <1>12
  <2> QED BY <1>2, <1>13, <2>1, <2>2, <2>3 DEF ChatTypeOK
<1>16. SeenIsPrefix'
  <2>1. \E l \in 0..posted' : seen' = 1..l BY <1>2, <1>4, <1>10
  <2> QED BY <1>2, <2>1 DEF Chat, SeenIsPrefix
<1>17. Undecided' = Undecided \cup New
  BY <1>2, <1>10, <1>14 DEF Undecided
<1>18. PageWaits'
  <2>1. \A i \in DOMAIN page' : page'[i] \in New BY <1>12
  <2>2. \A i, j \in DOMAIN page' : page'[i] = page'[j] => i = j
    <3>1. 1..n \subseteq DOMAIN fresh BY <1>7, <1>11
    <3> QED BY <1>7, <1>12, <3>1
  <2> QED BY <1>2, <1>17, <2>1, <2>2 DEF PageWaits
<1>19. SeenIsAccountedFor'
  <2>1. Cardinality(Undecided) = Len(page) + dropping + dropped
    BY <1>2 DEF Chat, SeenIsAccountedFor, Undecided
  <2>2. page = <<>> /\ dropping = 0
    BY <1>2 DEF Chat, PageWaits
  <2>3. IsFiniteSet(Undecided) /\ IsFiniteSet(New) /\ Undecided \cap New = {}
    <3>1. Undecided \subseteq 1..k BY <1>3 DEF Undecided
    <3> QED BY <1>9, <3>1, CommentsAreFinite
  <2>4. Cardinality(New) = posted - k
    BY <1>4, IntervalSize DEF New
  <2>5. Cardinality(Undecided \cup New) = Cardinality(Undecided) + (posted - k)
    <3>1. Cardinality(Undecided) \in Nat BY <2>3, FS_CardinalityType
    <3>2. Cardinality(Undecided \cup New)
          = Cardinality(Undecided) + Cardinality(New) - Cardinality(Undecided \cap New)
      BY <2>3, FS_Union
    <3>3. Cardinality(Undecided \cap New) = 0
      BY <2>3, FS_EmptySet
    <3> QED BY <1>4, <2>4, <3>1, <3>2, <3>3
  <2>6. Len(page) = 0 /\ dropped \in Nat /\ dropped' = dropped /\ Len(page') \in Nat
    BY <1>2, <1>12, <2>2 DEF ChatTypeOK
  <2>7. Cardinality(Undecided') = Len(page') + dropping' + dropped'
    BY <1>4, <1>13, <1>17, <2>1, <2>2, <2>5, <2>6
  <2> QED BY <2>7 DEF SeenIsAccountedFor, Undecided
<1> QED BY <1>2, <1>15, <1>16, <1>18, <1>19 DEF Chat

\* A step that adds nothing to what was seen, and leaves the page as it is or
\* gives it up with the task.
LEMMA ChatStays ==
  ASSUME ChatTypeOK, Chat, ChatTypeOK', posted <= posted',
         UNCHANGED <<seen, decision>>,
         \/ /\ UNCHANGED <<page, dropping, dropped>>
            /\ pollerPc' = "moderating" => page # <<>>
            /\ pollerPc = "dead" => pollerPc' = "dead"
            /\ \/ pollerPc' \in {"page", "moderating"}
               \/ page = <<>> /\ dropping = 0
         \/ pollerPc' = "dead" /\ page' = <<>> /\ dropping' = 0
  PROVE  Chat'
<1>1. SeenIsPrefix'
  <2>1. posted \in Int /\ posted' \in Int BY DEF ChatTypeOK
  <2>2. 0..posted \subseteq 0..posted' BY <2>1
  <2> QED BY <2>2 DEF Chat, SeenIsPrefix
<1>2. Undecided' = Undecided BY DEF Undecided
<1>3. PageWaits'
  BY <1>2 DEF Chat, PageWaits
<1>4. SeenIsAccountedFor'
  BY DEF Chat, SeenIsAccountedFor
<1> QED BY <1>1, <1>3, <1>4 DEF Chat

LEMMA PollerKeeps ==
  ASSUME ChatTypeOK, Chat, Post \/ OrderEnd \/ PollerNext
  PROVE  ChatTypeOK' /\ Chat' /\ decision' = decision
<1>0. posted \in Nat /\ attempt \in Nat /\ dropping \in Nat /\ dropped \in Nat /\ MaxComments \in Nat
      /\ <<>> \in Seq(Comments) /\ Len(<<>>) = 0 /\ 0 <= PerPoll
  BY ChatAssumption DEF ChatTypeOK
<1>1. CASE Post
  <2>1. ChatTypeOK' BY <1>0, <1>1 DEF Post, ChatTypeOK
  <2> QED BY <1>0, <1>1, <2>1, ChatStays DEF Post, Chat, PageWaits
<1>2. CASE OrderEnd
  <2>1. ChatTypeOK' BY <1>0, <1>2 DEF OrderEnd, ChatTypeOK
  <2> QED BY <1>0, <1>2, <2>1, ChatStays DEF OrderEnd, Chat, PageWaits
<1>3. CASE StopForLifecycle
  <2>1. ChatTypeOK' BY <1>0, <1>3 DEF StopForLifecycle, ChatTypeOK
  <2> QED BY <1>0, <1>3, <2>1, ChatStays DEF StopForLifecycle
<1>4. CASE BeginPoll /\ ~StopForLifecycle
  <2>1. ChatTypeOK' BY <1>0, <1>4 DEF BeginPoll, ChatTypeOK
  <2> QED BY <1>0, <1>4, <2>1, ChatStays DEF BeginPoll, Chat, PageWaits
<1>5. CASE PageArrives /\ ~StopForLifecycle
  BY <1>5, PageArrivesKeeps DEF PageArrives
<1>6. CASE FetchFails
  <2>1. ChatTypeOK' BY <1>0, <1>6 DEF FetchFails, ChatTypeOK
  <2> QED BY <1>0, <1>6, <2>1, ChatStays DEF FetchFails, Chat, PageWaits
<1>7. CASE HandOver /\ ~StopForLifecycle
  <2>1. ChatTypeOK' BY <1>0, <1>7 DEF HandOver, ChatTypeOK
  <2> QED BY <1>0, <1>7, <2>1, ChatStays DEF HandOver, Chat, PageWaits
<1>8. CASE PageEnds
  <2>1. ChatTypeOK' BY <1>0, <1>8 DEF PageEnds, ChatTypeOK
  <2>2. SeenIsPrefix' /\ Undecided' = Undecided
    BY <1>8 DEF PageEnds, Chat, SeenIsPrefix, Undecided
  <2>3. PageWaits' BY <1>8, <2>2 DEF PageEnds, Chat, PageWaits
  <2>4. SeenIsAccountedFor'
    <3>1. Len(page) = 0 /\ Len(page') = 0 BY <1>0, <1>8 DEF PageEnds
    <3> QED BY <1>0, <1>8, <3>1 DEF PageEnds, Chat, SeenIsAccountedFor
  <2> QED BY <1>8, <2>1, <2>2, <2>3, <2>4 DEF PageEnds, Chat
<1> QED BY <1>1, <1>2, <1>3, <1>4, <1>5, <1>6, <1>7, <1>8 DEF PollerNext

\* The judgement takes the comment out of the page and out of the undecided.
LEMMA DecideKeeps ==
  ASSUME ChatTypeOK, Chat, NEW verdict, Decide(verdict)
  PROVE  /\ ChatTypeOK' /\ Chat'
         /\ Head(page) \in Comments /\ decision[Head(page)] = "none" /\ verdict # "none"
<1>1. /\ verdict \in Verdicts /\ pollerPc = "moderating" /\ pollerPc' = "page"
      /\ decision' = [decision EXCEPT ![Head(page)] = verdict] /\ page' = Tail(page)
      /\ UNCHANGED <<posted, live, pollerStatus, attempt, stopSet, seen, dropping, dropped>>
  BY DEF Decide, Verdicts
<1>2. page \in Seq(Comments) /\ page # <<>> /\ Len(page) \in Nat /\ Len(page) <= PerPoll
  BY <1>1 DEF ChatTypeOK, Chat, PageWaits
<1> DEFINE c == Head(page)
<1>3. /\ c = page[1] /\ 1 \in DOMAIN page /\ c \in Comments
      /\ page' \in Seq(Comments) /\ Len(page') = Len(page) - 1
      /\ \A i \in DOMAIN page' : page'[i] = page[i + 1] /\ i + 1 \in DOMAIN page /\ i + 1 # 1
  BY <1>1, <1>2
<1>4. c \in Undecided
  BY <1>3 DEF Chat, PageWaits
<1>5. verdict # "none" /\ decision \in [Comments -> Verdicts \cup {"none"}]
  BY <1>1 DEF Verdicts, ChatTypeOK
<1> HIDE DEF c
<1>6. /\ decision' = [decision EXCEPT ![c] = verdict]
      /\ decision' \in [Comments -> Verdicts \cup {"none"}]
      /\ decision'[c] = verdict /\ \A d \in Comments : d # c => decision'[d] = decision[d]
  BY <1>1, <1>3, <1>5 DEF c
<1>7. PerPoll \in Nat BY ChatAssumption
<1>8. ChatTypeOK'
  <2>1. Len(page') <= PerPoll BY <1>2, <1>3, <1>7
  <2> QED BY <1>1, <1>3, <1>6, <2>1 DEF ChatTypeOK
<1>9. seen \subseteq Comments BY DEF ChatTypeOK
<1>10. Undecided' = Undecided \ {c}
  BY <1>1, <1>5, <1>6, <1>9 DEF Undecided
<1>11. SeenIsPrefix'
  BY <1>1, <1>4, <1>6 DEF Chat, SeenIsPrefix, Undecided
<1>12. PageWaits'
  <2>1. ASSUME NEW i \in DOMAIN page' PROVE page'[i] \in Undecided'
    <3>1. page[i + 1] # c BY <1>3 DEF Chat, PageWaits
    <3> QED BY <1>3, <1>10, <3>1 DEF Chat, PageWaits
  <2>2. ASSUME NEW i \in DOMAIN page', NEW j \in DOMAIN page', page'[i] = page'[j] PROVE i = j
    <3>1. i + 1 = j + 1 BY <1>3, <2>2 DEF Chat, PageWaits
    <3>2. i \in Int /\ j \in Int BY <1>3
    <3> QED BY <3>1, <3>2
  <2> QED BY <1>1, <2>1, <2>2 DEF PageWaits
<1>13. SeenIsAccountedFor'
  <2>1. Cardinality(Undecided) = Len(page) + dropping + dropped
    BY <1>1 DEF Chat, SeenIsAccountedFor, Undecided
  <2>2. Undecided \subseteq Comments BY <1>9 DEF Undecided
  <2>3. Cardinality(Undecided') = Cardinality(Undecided) - 1
    BY <1>4, <1>10, <2>2, CommentsAreFinite, FS_RemoveElement
  <2>4. dropping \in Nat /\ dropped \in Nat BY DEF ChatTypeOK
  <2>5. Cardinality(Undecided') = Len(page') + dropping' + dropped'
    BY <1>1, <1>2, <1>3, <2>1, <2>3, <2>4
  <2> QED BY <2>5 DEF SeenIsAccountedFor, Undecided
<1> QED BY <1>3, <1>4, <1>5, <1>8, <1>11, <1>12, <1>13 DEF Chat, Undecided, c

-----------------------------------------------------------------------------
(***************************************************************************)
(* The answers.                                                            *)
(***************************************************************************)

LEMMA TasksApart ==
  /\ \A c \in Comments : c \in Tasks /\ c \notin Retries /\ c \in 0..MaxComments /\ c # 0
  /\ \A r \in Retries : r \in Tasks /\ r \notin Comments
  BY PipelineAssumption, ChatAssumption DEF Tasks, Comments

LEMMA GotoIs ==
  ASSUME pc \in [Tasks -> Steps], NEW t \in Tasks, NEW step \in Steps, Goto(t, step)
  PROVE  /\ pc' \in [Tasks -> Steps] /\ pc'[t] = step
         /\ \A u \in Tasks : u # t => pc'[u] = pc[u]
  BY DEF Goto

\* A nonempty set of comments has an oldest.
LEMMA OldestExists ==
  ASSUME NEW S \in SUBSET Nat, S # {}
  PROVE  \E x \in S : \A y \in S : x <= y
<1> DEFINE T == {1..x : x \in S}
<1>1. T \subseteq FiniteSubsetsOf(Nat) /\ T # {}
  <2>1. ASSUME NEW x \in S PROVE 1..x \subseteq Nat /\ IsFiniteSet(1..x)
    BY FS_Interval
  <2> QED BY <2>1 DEF FiniteSubsetsOf
<1>2. PICK t \in T : \A u \in T : <<u, t>> \notin StrictSubsetOrdering(Nat)
  BY <1>1, WFMin, FS_StrictSubsetOrderingWellFounded
<1>3. PICK x \in S : t = 1..x OBVIOUS
<1>4. ASSUME NEW y \in S, y < x PROVE FALSE
  <2>1. 1..y \subseteq 1..x /\ 1..y # 1..x
    <3>1. x \in 1..x /\ x \notin 1..y BY <1>4
    <3> QED BY <1>4, <3>1
  <2>2. 1..y \in SUBSET Nat /\ 1..x \in SUBSET Nat /\ 1..y \in T
    OBVIOUS
  <2>3. \A A, B \in SUBSET Nat : A \subseteq B /\ A # B => <<A, B>> \in StrictSubsetOrdering(Nat)
    BY DEF StrictSubsetOrdering
  <2> QED BY <1>2, <1>3, <2>1, <2>2, <2>3
<1> QED BY <1>4

\* A new candidate finds room: the oldest of a full pool makes way.
LEMMA AddedFits ==
  ASSUME candidate \in [Comments -> Candidates], Cardinality(Kept(candidate)) <= PoolSize,
         NEW c \in Comments, candidate[c] = "none"
  PROVE  /\ Added(c) \in [Comments -> Candidates] /\ Added(c)[c] = "pending"
         /\ \A d \in Comments : d # c => Added(c)[d] \in {candidate[d], "none"}
         /\ Cardinality(Kept(Added(c))) <= PoolSize
<1> DEFINE kept == Kept(candidate)
           oldest == CHOOSE d \in kept : \A e \in kept : d <= e
           full == Cardinality(kept) >= PoolSize
<1>1. Added(c) = [d \in Comments |-> IF d = c THEN "pending"
                                     ELSE IF full /\ d = oldest THEN "none" ELSE candidate[d]]
  BY DEF Added, Kept
<1>2. /\ kept \subseteq Comments /\ c \notin kept /\ IsFiniteSet(kept)
      /\ Cardinality(kept) \in Nat /\ PoolSize \in Nat \ {0}
  BY CommentsAreFinite, PipelineAssumption DEF Kept
<1>3. full => oldest \in kept
  <2>1. Comments \subseteq Nat BY ChatAssumption DEF Comments
  <2>2. full => kept # {} BY <1>2, FS_EmptySet
  <2>3. full => \E d \in kept : \A e \in kept : d <= e BY <1>2, <2>1, <2>2, OldestExists
  <2> QED BY <2>3
<1> DEFINE rest == IF full THEN kept \ {oldest} ELSE kept
<1>4. Kept(Added(c)) = rest \cup {c}
  BY <1>1, <1>2 DEF Kept
<1> HIDE DEF kept, oldest
<1>5. IsFiniteSet(rest) /\ c \notin rest /\ Cardinality(rest) \in Nat /\ Cardinality(rest) < PoolSize
  <2>1. CASE full
    <3>1. IsFiniteSet(kept \ {oldest}) /\ Cardinality(kept \ {oldest}) = Cardinality(kept) - 1
      BY <1>2, <1>3, <2>1, FS_RemoveElement
    <3>2. Cardinality(kept) <= PoolSize BY DEF kept
    <3>3. Cardinality(kept \ {oldest}) \in Nat BY <3>1, FS_CardinalityType
    <3> QED BY <1>2, <2>1, <3>1, <3>2, <3>3
  <2>2. CASE ~full BY <1>2, <2>2
  <2> QED BY <2>1, <2>2
<1> HIDE DEF rest
<1>6. Cardinality(rest \cup {c}) <= PoolSize
  <2>1. Cardinality(rest \cup {c}) = Cardinality(rest) + 1 BY <1>5, FS_AddElement
  <2> QED BY <1>2, <1>5, <2>1
<1>7. Added(c) \in [Comments -> Candidates] BY <1>1 DEF Candidates
<1> QED BY <1>1, <1>4, <1>6, <1>7

\* What is looked at keeps its reservation or is marked as run out.
LEMMA LookedIs ==
  ASSUME NEW sel \in [Comments -> Selections], NEW over
  PROVE  /\ Looked(sel, over) \in [Comments -> Selections]
         /\ \A c \in Comments : \/ Looked(sel, over)[c] = sel[c]
                                \/ sel[c] = "reserved" /\ Looked(sel, over)[c] = "expired"
  BY DEF Looked, Reserved, Selections

\* An answer under way is not disturbed by another one.
LEMMA AgreesStill ==
  ASSUME Agree, NEW d \in Comments, selection[d] \in Selections,
         response'[d] = response[d], heard'[d] = heard[d],
         \/ selection'[d] = selection[d]
         \/ selection[d] = "reserved" /\ selection'[d] = "expired"
  PROVE  /\ Matches(response'[d].status, selection'[d], response'[d].retryable)
         /\ heard'[d] <= 1
         /\ heard'[d] = 1 => /\ selection'[d] \in {"consumed", "expired"}
                             /\ response'[d].status # "SPEAKING"
  BY DEF Agree, Matches

-----------------------------------------------------------------------------
\* Between the chat and the answers: a comment that is allowed gets its task.
LEMMA ModeratedKeeps ==
  ASSUME IInv, Moderated PROVE IInv'
<1>1. PICK verdict \in Verdicts :
        /\ Decide(verdict)
        /\ pc' = IF verdict = "allow" THEN [pc EXCEPT ![Head(page)] = "created"] ELSE pc
  BY DEF Moderated
<1>2. UNCHANGED <<mainDone, candidate, ranking, pool, selection, due, selected, response,
                  subject, expected, heard>>
  BY DEF Moderated, replyVars
<1> DEFINE h == Head(page)
<1>3. /\ ChatTypeOK' /\ Chat' /\ h \in Comments /\ decision[h] = "none" /\ verdict # "none"
      /\ decision' = [decision EXCEPT ![h] = verdict]
  BY <1>1, DecideKeeps DEF IInv, Types, Decide
<1> HIDE DEF h
<1>4. /\ h \in Tasks /\ h \notin Retries /\ pc[h] = "none" /\ pc \in [Tasks -> Steps]
      /\ pc' \in [Tasks -> Steps] /\ pc'[h] \in {"none", "created"}
      /\ \A t \in Tasks : t # h => pc'[t] = pc[t]
  BY <1>1, <1>3, TasksApart DEF IInv, Types, Answers, OnItsWay, Steps, h
<1>5. decision'[h] # "none" /\ \A c \in Comments : c # h => decision'[c] = decision[c]
  BY <1>3 DEF IInv, Types, ChatTypeOK
<1>6. Types'
  BY <1>2, <1>3, <1>4 DEF IInv, Types, Kept
<1>7. OnItsWay'
  <2>1. candidate[h] = "none" /\ selection[h] = "none" /\ h \notin pool
    BY <1>3, <1>4 DEF IInv, Answers, OnItsWay
  <2>2. \A c \in Comments : c # h => pc'[c] = pc[c]
    BY <1>4, TasksApart
  <2> QED BY <1>2, <1>5, <2>1, <2>2 DEF IInv, Answers, OnItsWay
<1>8. OneRanks'
  <2>1. \A c \in Comments : pc'[c] = "ranking" <=> pc[c] = "ranking"
    BY <1>4, TasksApart
  <2> QED BY <1>2, <2>1 DEF IInv, Answers, OneRanks
<1>9. Agree'
  BY <1>2 DEF IInv, Answers, Agree
<1>10. \A t \in Tasks : pc'[t] = "speaking" <=> pc[t] = "speaking"
  BY <1>4
<1>11. Speakers'
  BY <1>2, <1>4, <1>10, TasksApart DEF IInv, Answers, Speakers, Speaks
<1> QED BY <1>3, <1>6, <1>7, <1>8, <1>9, <1>11 DEF IInv, Answers

LEMMA ChatUnchanged ==
  ASSUME IInv, UNCHANGED chatVars
  PROVE  ChatTypeOK' /\ Chat' /\ decision' = decision
  BY DEF chatVars, IInv, Types, ChatTypeOK, Chat, SeenIsPrefix, PageWaits, Undecided,
         SeenIsAccountedFor

\* Steps that leave the answers alone.
LEMMA OthersKeep ==
  ASSUME IInv, ChatSteps \/ MainCompletes \/ (\E c \in Comments : TimePasses(c)) \/ UNCHANGED vars
  PROVE  IInv'
<1>1. /\ UNCHANGED <<candidate, ranking, pool, selection, selected, response, pc, subject,
                     expected, heard>>
      /\ ChatTypeOK' /\ Chat' /\ decision' = decision
      /\ mainDone' \in BOOLEAN /\ due' \in [Comments -> BOOLEAN]
  <2>1. CASE ChatSteps
    BY <2>1, PollerKeeps DEF ChatSteps, IInv, Types, replyVars, taskVars
  <2>2. CASE UNCHANGED chatVars
    <3>1. ChatTypeOK' /\ Chat' /\ decision' = decision
      BY <2>2, ChatUnchanged
    <3>2. CASE ChatSteps BY <2>1, <3>2
    <3>3. CASE MainCompletes
      BY <3>1, <3>3 DEF MainCompletes, replyVars, taskVars, IInv, Types
    <3>4. ASSUME NEW c \in Comments, TimePasses(c)
          PROVE  /\ UNCHANGED <<candidate, ranking, pool, selection, selected, response, pc, subject,
                                expected, heard, mainDone>>
                 /\ due' \in [Comments -> BOOLEAN]
      BY <3>4 DEF TimePasses, taskVars, IInv, Types
    <3>5. CASE UNCHANGED vars
      BY <3>1, <3>5 DEF vars, replyVars, taskVars, IInv, Types
    <3> QED BY <3>1, <3>2, <3>3, <3>4, <3>5 DEF IInv, Types
  <2> QED BY <2>1, <2>2 DEF MainCompletes, TimePasses, vars
<1>2. Types' BY <1>1 DEF IInv, Types, Kept
<1>3. Answers'
  BY <1>1 DEF IInv, Answers, OnItsWay, OneRanks, Agree, Speakers, Speaks
<1> QED BY <1>1, <1>2, <1>3 DEF IInv

-----------------------------------------------------------------------------
\* The pool and the selection.

LEMMA AddKeeps ==
  ASSUME IInv, NEW c \in Comments, Add(c) PROVE IInv'
<1>1. /\ pc[c] = "created" /\ candidate' = Added(c) /\ Goto(c, "waiting")
      /\ UNCHANGED chatVars
      /\ UNCHANGED <<mainDone, ranking, pool, selection, due, selected, response, subject,
                     expected, heard>>
  BY DEF Add
<1>2. ChatTypeOK' /\ Chat' /\ decision' = decision
  BY <1>1, ChatUnchanged
<1>3. /\ c \in Tasks /\ c \notin Retries /\ pc' \in [Tasks -> Steps] /\ pc'[c] = "waiting"
      /\ \A t \in Tasks : t # c => pc'[t] = pc[t]
  BY <1>1, TasksApart, GotoIs DEF IInv, Types, Steps
<1>4. candidate[c] = "none" /\ selection[c] = "none" /\ decision[c] # "none"
  BY <1>1 DEF IInv, Answers, OnItsWay
<1>5. /\ candidate' \in [Comments -> Candidates] /\ candidate'[c] = "pending"
      /\ \A d \in Comments : d # c => candidate'[d] \in {candidate[d], "none"}
      /\ Cardinality(Kept(candidate')) <= PoolSize
  BY <1>1, <1>4, AddedFits DEF IInv, Types
<1>6. Types'
  BY <1>1, <1>2, <1>3, <1>5 DEF IInv, Types
<1>7. \A d \in Comments : d # c => pc'[d] = pc[d]
  BY <1>3, TasksApart
<1>8. OnItsWay'
  BY <1>1, <1>2, <1>3, <1>4, <1>5, <1>7 DEF IInv, Answers, OnItsWay
<1>9. OneRanks'
  BY <1>1, <1>3, <1>7 DEF IInv, Answers, OneRanks
<1>10. Agree'
  BY <1>1 DEF IInv, Answers, Agree
<1>11. /\ \A t \in Tasks : pc'[t] = "speaking" <=> pc[t] = "speaking"
       /\ \A r \in Retries : pc'[r] = pc[r]
  BY <1>1, <1>3, TasksApart
<1>12. Speakers'
  BY <1>1, <1>11 DEF IInv, Answers, Speakers, Speaks
<1> QED BY <1>2, <1>6, <1>8, <1>9, <1>10, <1>12 DEF IInv, Answers

LEMMA BeginRankingKeeps ==
  ASSUME IInv, NEW c \in Comments, BeginRanking(c) PROVE IInv'
<1>1. /\ pc[c] = "waiting" /\ ranking = 0
      /\ selection' = IF MayAnswer THEN Looked(selection, due) ELSE selection
      /\ UNCHANGED chatVars
      /\ UNCHANGED <<mainDone, due, selected, response, subject, expected, heard>>
  BY DEF BeginRanking
<1>2. ChatTypeOK' /\ Chat' /\ decision' = decision
  BY <1>1, ChatUnchanged
<1>3. /\ \E step \in {"done", "ranking"} : Goto(c, step) /\ (ranking' = IF step = "ranking" THEN c ELSE 0)
      /\ \/ ranking' = 0 /\ pool' = pool
         \/ ranking' = c /\ pool' = {d \in Comments : candidate'[d] \in {"pending", "ranked"}}
      /\ \/ candidate' = candidate
         \/ \E old \in SUBSET {d \in Comments : candidate[d] \in {"pending", "ranked"}} :
              candidate' = [d \in Comments |-> IF d \in old THEN "expired" ELSE candidate[d]]
  BY <1>1, TasksApart DEF BeginRanking
<1>4. /\ c \in Tasks /\ c # 0 /\ pc' \in [Tasks -> Steps]
      /\ pc'[c] \in {"done", "ranking"} /\ (pc'[c] = "ranking" <=> ranking' = c)
      /\ ranking' \in {0, c}
      /\ \A t \in Tasks : t # c => pc'[t] = pc[t]
  BY <1>3, TasksApart, GotoIs DEF IInv, Types, Steps
<1>5. /\ candidate' \in [Comments -> Candidates] /\ Kept(candidate') = Kept(candidate)
      /\ \A d \in Comments : \/ candidate'[d] = candidate[d]
                             \/ candidate[d] \in {"pending", "ranked"} /\ candidate'[d] = "expired"
  BY <1>3 DEF IInv, Types, Candidates, Kept
<1>6. /\ selection' \in [Comments -> Selections]
      /\ \A d \in Comments : \/ selection'[d] = selection[d]
                             \/ selection[d] = "reserved" /\ selection'[d] = "expired"
  <2>1. selection \in [Comments -> Selections] BY DEF IInv, Types
  <2>2. CASE MayAnswer
    <3>1. selection' = Looked(selection, due) BY <1>1, <2>2
    <3> QED BY <2>1, <3>1, LookedIs
  <2>3. CASE ~MayAnswer BY <1>1, <2>1, <2>3
  <2> QED BY <2>2, <2>3
<1>7. Types'
  <2>1. ranking' \in 0..MaxComments /\ pool' \subseteq Comments
    BY <1>1, <1>3, <1>4, TasksApart DEF IInv, Types
  <2> QED BY <1>1, <1>2, <1>4, <1>5, <1>6, <2>1 DEF IInv, Types
<1>8. \A d \in Comments : d # c => pc'[d] = pc[d]
  BY <1>4, TasksApart
<1>9. OnItsWay'
  <2>1. pool = {} BY <1>1 DEF IInv, Answers, OneRanks
  <2>2. ASSUME NEW d \in Comments
        PROVE  /\ decision[d] = "none" => pc'[d] = "none"
               /\ pc'[d] \in {"none", "created"} => candidate'[d] = "none" /\ selection'[d] = "none"
               /\ candidate'[d] \in {"pending", "ranked"} =>
                     selection'[d] = "none" /\ pc'[d] \notin {"none", "created"}
    <3>1. decision[c] # "none" BY <1>1 DEF IInv, Answers, OnItsWay
    <3> QED BY <1>1, <1>4, <1>5, <1>6, <1>8, <3>1 DEF IInv, Answers, OnItsWay
  <2> QED BY <1>2, <1>3, <2>1, <2>2 DEF OnItsWay
<1>10. OneRanks'
  <2>1. \A d \in Comments : pc[d] # "ranking" /\ d # 0
    BY <1>1, TasksApart DEF IInv, Answers, OneRanks
  <2>2. pool = {} BY <1>1 DEF IInv, Answers, OneRanks
  <2> QED BY <1>3, <1>4, <1>8, <2>1, <2>2 DEF OneRanks
<1>11. Agree'
  <2>1. \A d \in Comments : selection[d] \in Selections BY DEF IInv, Types
  <2> QED BY <1>1, <1>6, <2>1, AgreesStill DEF IInv, Answers, Agree
<1>12. /\ \A t \in Tasks : pc'[t] = "speaking" <=> pc[t] = "speaking"
       /\ \A r \in Retries : pc'[r] = pc[r]
  BY <1>1, <1>4, TasksApart
<1>13. Speakers'
  BY <1>1, <1>12 DEF IInv, Answers, Speakers, Speaks
<1> QED BY <1>2, <1>7, <1>9, <1>10, <1>11, <1>13 DEF IInv, Answers

\* Nobody is chosen.
LEMMA RankingInVain ==
  ASSUME IInv, NEW c \in Comments, pc[c] = "ranking", Goto(c, "done"),
         ranking' = 0, pool' = {}, UNCHANGED chatVars,
         UNCHANGED <<mainDone, selection, selected, response, subject, due, expected, heard>>,
         candidate' \in {candidate, [d \in Comments |->
                            IF d \in pool /\ candidate[d] # "none" THEN "ranked" ELSE candidate[d]]}
  PROVE  IInv'
<1>1. ChatTypeOK' /\ Chat' /\ decision' = decision
  BY ChatUnchanged
<1>2. /\ c \in Tasks /\ pc' \in [Tasks -> Steps] /\ pc'[c] = "done"
      /\ \A t \in Tasks : t # c => pc'[t] = pc[t]
      /\ \A d \in Comments : d # c => pc'[d] = pc[d]
  BY TasksApart, GotoIs DEF IInv, Types, Steps
<1>3. /\ candidate' \in [Comments -> Candidates] /\ Kept(candidate') = Kept(candidate)
      /\ \A d \in Comments : \/ candidate'[d] = candidate[d]
                             \/ d \in pool /\ candidate[d] # "none" /\ candidate'[d] = "ranked"
  BY DEF IInv, Types, Candidates, Kept
<1>4. Types'
  <2>1. 0 \in 0..MaxComments BY ChatAssumption
  <2> QED BY <1>1, <1>2, <1>3, <2>1 DEF IInv, Types
<1>5. OnItsWay'
  <2>1. decision[c] # "none" BY DEF IInv, Answers, OnItsWay
  <2> QED BY <1>1, <1>2, <1>3, <2>1 DEF IInv, Answers, OnItsWay
<1>6. OneRanks'
  <2>1. ranking = c BY DEF IInv, Answers, OneRanks
  <2> QED BY <1>2, <2>1, TasksApart DEF IInv, Answers, OneRanks
<1>7. Agree' BY DEF IInv, Answers, Agree
<1>8. /\ \A t \in Tasks : pc'[t] = "speaking" <=> pc[t] = "speaking"
      /\ \A r \in Retries : pc'[r] = pc[r]
  BY <1>2, TasksApart
<1>9. Speakers' BY <1>8 DEF IInv, Answers, Speakers, Speaks
<1> QED BY <1>1, <1>4, <1>5, <1>6, <1>7, <1>9 DEF IInv, Answers

LEMMA EndRankingKeeps ==
  ASSUME IInv, NEW c \in Comments, EndRanking(c) PROVE IInv'
<1> DEFINE ranked == [d \in Comments |-> IF d \in pool /\ candidate[d] # "none"
                                         THEN "ranked" ELSE candidate[d]]
<1>1. /\ pc[c] = "ranking" /\ pool' = {} /\ ranking' = 0
      /\ UNCHANGED chatVars /\ UNCHANGED <<mainDone, due, expected, heard>>
  BY DEF EndRanking, Unlock
<1>2. PICK best \in Winners :
        IF ~MayAnswer \/ best = 0
        THEN /\ candidate' = IF MayAnswer THEN ranked ELSE candidate
             /\ Goto(c, "done") /\ UNCHANGED <<selection, selected, response, subject>>
        ELSE /\ candidate' = IF ranked[best] = "none" THEN ranked
                             ELSE [ranked EXCEPT ![best] = "selected"]
             /\ selection' = [selection EXCEPT ![best] = "reserved"]
             /\ selected' = Append(selected, best)
             /\ BeginsAnswer(c, best)
  BY DEF EndRanking
<1>3. CASE ~MayAnswer \/ best = 0
  BY <1>1, <1>2, <1>3, RankingInVain
<1>4. CASE ~(~MayAnswer \/ best = 0)
  <2>1. /\ candidate' = IF ranked[best] = "none" THEN ranked
                        ELSE [ranked EXCEPT ![best] = "selected"]
        /\ selection' = [selection EXCEPT ![best] = "reserved"]
        /\ selected' = Append(selected, best)
        /\ response' = [response EXCEPT ![best] =
                          [status |-> "SPEAKING", attempt |-> 1, retryable |-> FALSE]]
        /\ subject' = [subject EXCEPT ![c] = best]
        /\ Goto(c, "speaking")
    BY <1>2, <1>4 DEF BeginsAnswer
  <2>2. best \in pool /\ best \in Comments
    BY <1>2, <1>4 DEF Winners, IInv, Types
  <2>3. ChatTypeOK' /\ Chat' /\ decision' = decision
    BY <1>1, ChatUnchanged
  <2>4. /\ c \in Tasks /\ c \notin Retries
        /\ pc' \in [Tasks -> Steps] /\ pc'[c] = "speaking"
        /\ \A t \in Tasks : t # c => pc'[t] = pc[t]
    BY <2>1, TasksApart, GotoIs DEF IInv, Types, Steps
  <2>5. \A d \in Comments : d # c => pc'[d] = pc[d]
    BY <2>4, TasksApart
  <2>6. /\ candidate' \in [Comments -> Candidates] /\ Kept(candidate') = Kept(candidate)
        /\ candidate'[best] \in {"none", "selected"}
        /\ \A d \in Comments : \/ candidate'[d] = candidate[d]
                               \/ d \in pool /\ candidate[d] # "none"
                                  /\ candidate'[d] \in {"ranked", "selected"}
    <3>1. ranked \in [Comments -> Candidates] /\ candidate \in [Comments -> Candidates]
      BY DEF IInv, Types, Candidates
    <3>2. ranked[best] = IF candidate[best] # "none" THEN "ranked" ELSE "none"
      BY <2>2
    <3>3. CASE candidate[best] = "none"
      <4>1. candidate' = ranked BY <2>1, <3>2, <3>3
      <4> QED BY <3>1, <3>2, <3>3, <4>1 DEF Kept
    <3>4. CASE candidate[best] # "none"
      <4>1. candidate' = [ranked EXCEPT ![best] = "selected"] BY <2>1, <3>2, <3>4
      <4>2. candidate' \in [Comments -> Candidates] BY <3>1, <4>1 DEF Candidates
      <4> QED BY <2>2, <3>1, <3>4, <4>1, <4>2 DEF Kept
    <3> QED BY <3>3, <3>4
  <2>7. /\ selection' \in [Comments -> Selections] /\ selection'[best] = "reserved"
        /\ \A d \in Comments : d # best => selection'[d] = selection[d]
        /\ selection[best] = "none"
    BY <2>1, <2>2 DEF IInv, Types, Selections, Answers, OnItsWay
  <2>8. /\ response' \in [Comments -> Responses]
        /\ response'[best].status = "SPEAKING" /\ response'[best].retryable = FALSE
        /\ \A d \in Comments : d # best => response'[d] = response[d]
        /\ response[best].status = "none"
    <3>1. [status |-> "SPEAKING", attempt |-> 1, retryable |-> FALSE] \in Responses
      BY DEF Responses
    <3>2. response[best].status = "none"
      BY <2>2, <2>7 DEF IInv, Answers, Agree, Matches
    <3> QED BY <2>1, <2>2, <3>1, <3>2 DEF IInv, Types
  <2>9. /\ subject' \in [Tasks -> 0..MaxComments] /\ subject'[c] = best
        /\ \A t \in Tasks : t # c => subject'[t] = subject[t]
    BY <2>1, <2>2, <2>4, TasksApart DEF IInv, Types
  <2>10. Types'
    <3>1. 0 \in 0..MaxComments BY ChatAssumption
    <3>2. selected' \in Seq(Comments) BY <2>1, <2>2 DEF IInv, Types
    <3> QED BY <1>1, <2>3, <2>4, <2>6, <2>7, <2>8, <2>9, <3>1, <3>2 DEF IInv, Types
  <2>11. OnItsWay'
    <3>1. decision[c] # "none" BY <1>1 DEF IInv, Answers, OnItsWay
    <3> QED BY <1>1, <2>2, <2>3, <2>4, <2>5, <2>6, <2>7, <3>1 DEF IInv, Answers, OnItsWay
  <2>12. OneRanks'
    <3>1. ranking = c BY <1>1 DEF IInv, Answers, OneRanks
    <3> QED BY <1>1, <2>4, <2>5, <3>1, TasksApart DEF IInv, Answers, OneRanks
  <2>13. Agree'
    <3>1. heard[best] <= 1 /\ heard[best] # 1
      BY <2>2, <2>7 DEF IInv, Answers, Agree
    <3> QED BY <1>1, <2>7, <2>8, <3>1 DEF IInv, Answers, Agree, Matches
  <2>14. Speakers'
    <3>1. \A t \in Tasks : pc[t] = "speaking" => t # c /\ subject[t] # best
      BY <1>1, <2>8 DEF IInv, Answers, Speakers
    <3>2. \A t \in Tasks, d \in Comments :
            Speaks(t, d)' <=> IF t = c THEN d = best ELSE Speaks(t, d)
      BY <2>4, <2>9 DEF Speaks
    <3>3. \A t \in Tasks : pc'[t] = "speaking" =>
            subject'[t] \in Comments /\ response'[subject'[t]].status = "SPEAKING"
      BY <2>2, <2>4, <2>8, <2>9, <3>1 DEF IInv, Answers, Speakers
    <3>4. ASSUME NEW d \in Comments, response'[d].status = "SPEAKING"
          PROVE  \E t \in Tasks : Speaks(t, d)'
      <4>1. CASE d = best BY <2>4, <3>2, <4>1
      <4>2. CASE d # best
        <5>1. PICK t \in Tasks : Speaks(t, d) BY <2>8, <3>4, <4>2 DEF IInv, Answers, Speakers
        <5> QED BY <3>1, <3>2, <5>1 DEF Speaks
      <4> QED BY <4>1, <4>2
    <3>5. \A d \in Comments : \A t, u \in Tasks : Speaks(t, d)' /\ Speaks(u, d)' => t = u
      <4>1. \A t \in Tasks : ~Speaks(t, best) BY <3>1 DEF Speaks
      <4> QED BY <3>2, <4>1 DEF IInv, Answers, Speakers
    <3>6. \A r \in Retries : pc'[r] = pc[r] /\ subject'[r] = subject[r]
      BY <2>4, <2>9, TasksApart
    <3> QED BY <3>3, <3>4, <3>5, <3>6 DEF IInv, Answers, Speakers, Speaks
  <2> QED BY <2>3, <2>10, <2>11, <2>12, <2>13, <2>14 DEF IInv, Answers
<1> QED BY <1>3, <1>4

-----------------------------------------------------------------------------
\* The answers.

\* What was reserved for a failed answer is released, unless it has run out.
LEMMA FailIs ==
  ASSUME IInv, NEW c \in Comments, response[c].status = "SPEAKING", Fail(c)
  PROVE  /\ response' \in [Comments -> Responses] /\ response'[c].status = "FAILED"
         /\ \A d \in Comments : d # c => response'[d] = response[d]
         /\ selection' \in [Comments -> Selections]
         /\ selection'[c] = IF response'[c].retryable THEN "released" ELSE "expired"
         /\ \A d \in Comments : d # c => \/ selection'[d] = selection[d]
                                         \/ selection[d] = "reserved" /\ selection'[d] = "expired"
         /\ selection[c] = "expired" => selection'[c] = "expired"
<1> DEFINE sel == IF selection[c] = "reserved" THEN Looked(selection, due) ELSE selection
<1>1. /\ Finish(c, "FAILED", sel[c] = "reserved")
      /\ selection' = IF sel[c] = "reserved" THEN [sel EXCEPT ![c] = "released"] ELSE sel
  BY DEF Fail
<1>2. selection \in [Comments -> Selections] /\ response \in [Comments -> Responses]
  BY DEF IInv, Types
<1>3. /\ sel \in [Comments -> Selections]
      /\ \A d \in Comments : \/ sel[d] = selection[d]
                             \/ selection[d] = "reserved" /\ sel[d] = "expired"
  BY <1>2, LookedIs
<1>4. selection[c] \in {"reserved", "expired"}
  BY DEF IInv, Answers, Agree, Matches
<1> HIDE DEF sel
<1> DEFINE ok == sel[c] = "reserved"
<1>5. sel[c] \in {"reserved", "expired"} /\ ok \in BOOLEAN
  BY <1>3, <1>4
<1> HIDE DEF ok
<1>6. /\ response' \in [Comments -> Responses]
      /\ response'[c].status = "FAILED" /\ response'[c].retryable = ok
      /\ \A d \in Comments : d # c => response'[d] = response[d]
  <2>1. response' = [response EXCEPT ![c].status = "FAILED", ![c].retryable = ok]
    BY <1>1 DEF Finish, ok
  <2> QED BY <1>2, <1>5, <2>1 DEF Responses
<1>7. /\ selection' \in [Comments -> Selections]
      /\ selection'[c] = IF ok THEN "released" ELSE "expired"
      /\ \A d \in Comments : d # c => selection'[d] = sel[d]
  <2>1. CASE ok
    <3>1. selection' = [sel EXCEPT ![c] = "released"] BY <1>1, <2>1 DEF ok
    <3> QED BY <1>3, <2>1, <3>1 DEF Selections
  <2>2. CASE ~ok
    <3>1. selection' = sel /\ sel[c] = "expired" BY <1>1, <1>5, <2>2 DEF ok
    <3> QED BY <1>3, <2>2, <3>1
  <2> QED BY <2>1, <2>2
<1> QED BY <1>3, <1>4, <1>5, <1>6, <1>7 DEF ok

\* An answer comes to its end, heard or not.
LEMMA AnswerOver ==
  ASSUME IInv, NEW t \in Tasks, NEW c \in Comments, Speaks(t, c), Goto(t, "done"),
         UNCHANGED <<chatVars, mainDone, candidate, ranking, pool, due, selected, subject, expected>>,
         response' \in [Comments -> Responses], response'[c].status \in {"COMPLETED", "FAILED"},
         \A d \in Comments : d # c => response'[d] = response[d],
         selection' \in [Comments -> Selections],
         Matches(response'[c].status, selection'[c], response'[c].retryable),
         \A d \in Comments : d # c => \/ selection'[d] = selection[d]
                                      \/ selection[d] = "reserved" /\ selection'[d] = "expired",
         heard' \in [Comments -> Nat], \A d \in Comments : d # c => heard'[d] = heard[d],
         heard'[c] <= 1, heard'[c] = 1 => selection'[c] \in {"consumed", "expired"}
  PROVE  IInv'
<1>1. ChatTypeOK' /\ Chat' /\ decision' = decision
  BY ChatUnchanged
<1>2. /\ pc' \in [Tasks -> Steps] /\ pc'[t] = "done" /\ pc[t] = "speaking"
      /\ \A u \in Tasks : u # t => pc'[u] = pc[u]
  BY GotoIs DEF IInv, Types, Steps, Speaks
<1>3. \A d \in Comments : pc'[d] = pc[d] \/ (pc[d] = "speaking" /\ pc'[d] = "done")
  <2>1. \A d \in Comments : d \in Tasks BY TasksApart
  <2>2. ASSUME NEW d \in Comments PROVE pc'[d] = pc[d] \/ (pc[d] = "speaking" /\ pc'[d] = "done")
    BY <1>2, <2>1
  <2> QED BY <2>2
<1>4. subject[t] = c /\ response[c].status = "SPEAKING" /\ selection[c] \in {"reserved", "expired"}
  BY DEF Speaks, IInv, Answers, Speakers, Agree, Matches
<1>5. Types'
  BY <1>1, <1>2 DEF IInv, Types
<1>6. OnItsWay'
  <2>1. \A d \in Comments : selection[d] = "none" => selection'[d] = "none"
    BY <1>4
  <2> QED BY <1>1, <1>3, <2>1 DEF IInv, Answers, OnItsWay
<1>7. OneRanks'
  BY <1>3 DEF IInv, Answers, OneRanks
<1>8. Agree'
  <2>1. \A d \in Comments : selection[d] \in Selections BY DEF IInv, Types
  <2>2. ASSUME NEW d \in Comments, d # c
        PROVE  /\ Matches(response'[d].status, selection'[d], response'[d].retryable)
               /\ heard'[d] <= 1
               /\ heard'[d] = 1 => /\ selection'[d] \in {"consumed", "expired"}
                                   /\ response'[d].status # "SPEAKING"
    BY <2>1, <2>2, AgreesStill DEF IInv, Answers
  <2> QED BY <2>2 DEF Agree
<1>9. Speakers'
  <2>1. \A u \in Tasks, d \in Comments : Speaks(u, d)' <=> u # t /\ Speaks(u, d)
    BY <1>2 DEF Speaks
  <2>2. \A u \in Tasks : u # t /\ pc[u] = "speaking" => subject[u] # c
    BY <1>4 DEF IInv, Answers, Speakers, Speaks
  <2>3. \A u \in Tasks : pc'[u] = "speaking" =>
          subject'[u] \in Comments /\ response'[subject'[u]].status = "SPEAKING"
    BY <1>2, <2>2 DEF IInv, Answers, Speakers
  <2>4. ASSUME NEW d \in Comments, response'[d].status = "SPEAKING"
        PROVE  \E u \in Tasks : Speaks(u, d)'
    <3>1. d # c /\ response[d].status = "SPEAKING" BY <2>4
    <3>2. PICK u \in Tasks : Speaks(u, d) BY <3>1 DEF IInv, Answers, Speakers
    <3>3. u # t BY <1>4, <3>1, <3>2 DEF Speaks
    <3> QED BY <2>1, <3>2, <3>3
  <2>5. \A d \in Comments : \A u, v \in Tasks : Speaks(u, d)' /\ Speaks(v, d)' => u = v
    BY <2>1 DEF IInv, Answers, Speakers
  <2>6. \A r \in Retries : pc'[r] = "created" => pc[r] = "created"
    BY <1>2, TasksApart
  <2> QED BY <2>3, <2>4, <2>5, <2>6 DEF IInv, Answers, Speakers
<1> QED BY <1>1, <1>5, <1>6, <1>7, <1>8, <1>9 DEF IInv, Answers

LEMMA SpeechKeeps ==
  ASSUME IInv, NEW t \in Tasks, SpeechFails(t) \/ SpeechEnds(t) PROVE IInv'
<1> DEFINE c == subject[t]
<1>1. /\ pc[t] = "speaking" /\ Goto(t, "done")
      /\ UNCHANGED <<chatVars, mainDone, candidate, ranking, pool, due, selected, subject, expected>>
  BY DEF SpeechFails, SpeechEnds
<1>2. /\ c \in Comments /\ Speaks(t, c) /\ response[c].status = "SPEAKING"
      /\ selection[c] \in {"reserved", "expired"}
  BY <1>1 DEF IInv, Answers, Speakers, Agree, Matches, Speaks
<1>3. /\ heard \in [Comments -> Nat] /\ heard[c] = 0
      /\ selection \in [Comments -> Selections] /\ response \in [Comments -> Responses]
  <2>1. heard \in [Comments -> Nat] BY DEF IInv, Types
  <2>2. heard[c] <= 1 /\ heard[c] # 1 BY <1>2 DEF IInv, Answers, Agree
  <2> QED BY <1>2, <2>1, <2>2 DEF IInv, Types
<1>4. CASE SpeechFails(t)
  <2>1. Fail(c) /\ heard' = heard BY <1>4 DEF SpeechFails
  <2>2. /\ response' \in [Comments -> Responses] /\ response'[c].status = "FAILED"
        /\ \A d \in Comments : d # c => response'[d] = response[d]
        /\ selection' \in [Comments -> Selections]
        /\ selection'[c] = IF response'[c].retryable THEN "released" ELSE "expired"
        /\ \A d \in Comments : d # c => \/ selection'[d] = selection[d]
                                        \/ selection[d] = "reserved" /\ selection'[d] = "expired"
    BY <1>2, <2>1, FailIs
  <2>3. Matches(response'[c].status, selection'[c], response'[c].retryable)
    BY <2>2 DEF Matches
  <2> HIDE DEF c
  <2> QED BY <1>1, <1>2, <1>3, <2>1, <2>2, <2>3, AnswerOver
<1>5. CASE SpeechEnds(t)
  <2>1. /\ heard' = [heard EXCEPT ![c] = @ + 1]
        /\ IF selection[c] = "reserved"
           THEN Finish(c, "COMPLETED", FALSE) /\ selection' = [selection EXCEPT ![c] = "consumed"]
           ELSE Fail(c)
    BY <1>5 DEF SpeechEnds
  <2> HIDE DEF c
  <2>2. /\ heard' \in [Comments -> Nat] /\ heard'[c] = 1
        /\ \A d \in Comments : d # c => heard'[d] = heard[d]
    BY <1>2, <1>3, <2>1
  <2>3. CASE selection[c] = "reserved"
    <3>1. /\ response' \in [Comments -> Responses] /\ response'[c].status = "COMPLETED"
          /\ \A d \in Comments : d # c => response'[d] = response[d]
      <4>1. response' = [response EXCEPT ![c].status = "COMPLETED", ![c].retryable = FALSE]
        BY <2>1, <2>3 DEF Finish
      <4> QED BY <1>2, <1>3, <4>1 DEF Responses
    <3>2. /\ selection' \in [Comments -> Selections] /\ selection'[c] = "consumed"
          /\ \A d \in Comments : d # c => selection'[d] = selection[d]
      BY <1>2, <1>3, <2>1, <2>3 DEF Selections
    <3>3. Matches(response'[c].status, selection'[c], response'[c].retryable)
      BY <3>1, <3>2 DEF Matches
    <3> QED BY <1>1, <1>2, <2>2, <3>1, <3>2, <3>3, AnswerOver
  <2>4. CASE selection[c] = "expired"
    <3>1. Fail(c) BY <2>1, <2>4
    <3>2. /\ response' \in [Comments -> Responses] /\ response'[c].status = "FAILED"
          /\ \A d \in Comments : d # c => response'[d] = response[d]
          /\ selection' \in [Comments -> Selections]
          /\ selection'[c] = IF response'[c].retryable THEN "released" ELSE "expired"
          /\ \A d \in Comments : d # c => \/ selection'[d] = selection[d]
                                          \/ selection[d] = "reserved" /\ selection'[d] = "expired"
          /\ selection'[c] = "expired"
      BY <1>2, <2>4, <3>1, FailIs
    <3>3. Matches(response'[c].status, selection'[c], response'[c].retryable)
      BY <3>2 DEF Matches
    <3> QED BY <1>1, <1>2, <2>2, <3>2, <3>3, AnswerOver
  <2> QED BY <1>2, <2>3, <2>4
<1> QED BY <1>4, <1>5

LEMMA SeeFailureKeeps ==
  ASSUME IInv, NEW r \in Retries, NEW c \in Comments, SeeFailure(r, c) PROVE IInv'
<1>1. /\ pc[r] = "none" /\ Goto(r, "created")
      /\ subject' = [subject EXCEPT ![r] = c]
      /\ expected' = [expected EXCEPT ![r] = response[c].attempt]
      /\ UNCHANGED chatVars
      /\ UNCHANGED <<mainDone, candidate, ranking, pool, selection, due, selected, response, heard>>
  BY DEF SeeFailure, replyVars
<1>2. ChatTypeOK' /\ Chat' /\ decision' = decision
  BY <1>1, ChatUnchanged
<1>3. /\ r \in Tasks /\ pc' \in [Tasks -> Steps] /\ pc'[r] = "created"
      /\ \A t \in Tasks : t # r => pc'[t] = pc[t]
  BY <1>1, TasksApart, GotoIs DEF IInv, Types, Steps
<1>4. /\ subject' \in [Tasks -> 0..MaxComments] /\ subject'[r] = c
      /\ \A t \in Tasks : t # r => subject'[t] = subject[t]
  BY <1>1, <1>3, TasksApart DEF IInv, Types
<1>5. expected' \in [Tasks -> Nat]
  BY <1>1, <1>3 DEF IInv, Types, Responses
<1>6. Types'
  BY <1>1, <1>2, <1>3, <1>4, <1>5 DEF IInv, Types
<1>7. \A d \in Comments : pc'[d] = pc[d]
  BY <1>3, TasksApart
<1>8. OnItsWay' /\ OneRanks' /\ Agree'
  BY <1>1, <1>2, <1>7 DEF IInv, Answers, OnItsWay, OneRanks, Agree
<1>9. Speakers'
  <2>1. \A t \in Tasks, d \in Comments : Speaks(t, d)' <=> Speaks(t, d)
    BY <1>1, <1>3, <1>4 DEF Speaks
  <2>2. \A t \in Tasks : pc'[t] = "speaking" => pc[t] = "speaking" /\ subject'[t] = subject[t]
    BY <1>3, <1>4
  <2>3. \A q \in Retries : pc'[q] = "created" => subject'[q] \in Comments
    BY <1>3, <1>4, TasksApart DEF IInv, Answers, Speakers
  <2> QED BY <1>1, <2>1, <2>2, <2>3 DEF IInv, Answers, Speakers
<1> QED BY <1>2, <1>6, <1>8, <1>9 DEF IInv, Answers

\* A retry that the repository grants: the released reservation is taken again, and
\* the gate decides whether the answer begins.
LEMMA RetryTaken ==
  ASSUME IInv, NEW r \in Retries, NEW c \in Comments,
         subject[r] = c, pc[r] = "created",
         response[c].status = "FAILED", selection[c] = "released",
         due' \in [Comments -> BOOLEAN],
         response' \in [Comments -> Responses],
         \A d \in Comments : d # c => response'[d] = response[d],
         selection' \in [Comments -> Selections],
         \A d \in Comments : d # c => \/ selection'[d] = selection[d]
                                      \/ selection[d] = "reserved" /\ selection'[d] = "expired",
         \/ /\ response'[c].status = "SPEAKING" /\ selection'[c] = "reserved"
            /\ Goto(r, "speaking")
         \/ /\ response'[c].status = "FAILED" /\ response'[c].retryable /\ selection'[c] = "released"
            /\ Goto(r, "done"),
         UNCHANGED <<chatVars, mainDone, candidate, ranking, pool, selected, subject, expected,
                     heard>>
  PROVE  IInv'
<1> DEFINE speaks == response'[c].status = "SPEAKING"
           step == IF speaks THEN "speaking" ELSE "done"
<1>1. ChatTypeOK' /\ Chat' /\ decision' = decision
  BY ChatUnchanged
<1>2. /\ speaks \in BOOLEAN
      /\ response'[c].status = IF speaks THEN "SPEAKING" ELSE "FAILED"
      /\ selection'[c] = IF speaks THEN "reserved" ELSE "released"
      /\ ~speaks => response'[c].retryable
      /\ Goto(r, step) /\ step \in Steps
  BY DEF Steps
<1> HIDE DEF speaks, step
<1>3. /\ r \in Tasks /\ pc' \in [Tasks -> Steps] /\ pc'[r] = step
      /\ \A t \in Tasks : t # r => pc'[t] = pc[t]
  <2> QED BY <1>2, TasksApart, GotoIs DEF IInv, Types
<1>4. \A d \in Comments : pc'[d] = pc[d]
  BY <1>3, TasksApart
<1>8. Types'
  BY <1>1, <1>3 DEF IInv, Types
<1>9. OnItsWay'
  <2>1. \A d \in Comments : selection[d] = "none" => selection'[d] = "none"
    OBVIOUS
  <2> QED BY <1>1, <1>4, <2>1 DEF IInv, Answers, OnItsWay
<1>10. OneRanks'
  BY <1>4 DEF IInv, Answers, OneRanks
<1>11. Agree'
  <2>1. \A d \in Comments : selection[d] \in Selections BY DEF IInv, Types
  <2>2. ASSUME NEW d \in Comments, d # c
        PROVE  /\ Matches(response'[d].status, selection'[d], response'[d].retryable)
               /\ heard'[d] <= 1
               /\ heard'[d] = 1 => /\ selection'[d] \in {"consumed", "expired"}
                                   /\ response'[d].status # "SPEAKING"
    BY <2>1, <2>2, AgreesStill DEF IInv, Answers
  <2>3. Matches(response'[c].status, selection'[c], response'[c].retryable)
    BY <1>2 DEF Matches
  <2>4. heard'[c] <= 1 /\ heard'[c] # 1
    BY DEF IInv, Answers, Agree
  <2> QED BY <2>2, <2>3, <2>4 DEF Agree
<1>12. Speakers'
  <2>1. \A t \in Tasks : pc[t] = "speaking" => t # r /\ subject[t] # c
    BY DEF IInv, Answers, Speakers
  <2>2. \A t \in Tasks, d \in Comments :
          Speaks(t, d)' <=> IF t = r THEN speaks /\ d = c ELSE Speaks(t, d)
    BY <1>2, <1>3 DEF Speaks, step
  <2>3. \A t \in Tasks : pc'[t] = "speaking" =>
          subject'[t] \in Comments /\ response'[subject'[t]].status = "SPEAKING"
    <3>1. \A t \in Tasks : t # r /\ pc[t] = "speaking" =>
            subject[t] \in Comments /\ response'[subject[t]].status = "SPEAKING"
      BY <2>1 DEF IInv, Answers, Speakers
    <3>2. pc'[r] = "speaking" => response'[c].status = "SPEAKING"
      BY <1>2, <1>3 DEF step
    <3> QED BY <1>3, <3>1, <3>2
  <2>4. ASSUME NEW d \in Comments, response'[d].status = "SPEAKING"
        PROVE  \E t \in Tasks : Speaks(t, d)'
    <3>1. CASE d = c BY <1>2, <1>3, <2>2, <2>4, <3>1
    <3>2. CASE d # c
      <4>1. PICK t \in Tasks : Speaks(t, d) BY <2>4, <3>2 DEF IInv, Answers, Speakers
      <4> QED BY <2>1, <2>2, <4>1 DEF Speaks
    <3> QED BY <3>1, <3>2
  <2>5. \A d \in Comments : \A t, u \in Tasks : Speaks(t, d)' /\ Speaks(u, d)' => t = u
    <3>1. \A t \in Tasks : ~Speaks(t, c) BY <2>1 DEF Speaks
    <3> QED BY <2>2, <3>1 DEF IInv, Answers, Speakers
  <2>6. \A q \in Retries : pc'[q] = "created" => subject'[q] \in Comments
    BY <1>2, <1>3, TasksApart DEF IInv, Answers, Speakers
  <2> QED BY <2>3, <2>4, <2>5, <2>6 DEF Speakers
<1> QED BY <1>1, <1>8, <1>9, <1>10, <1>11, <1>12 DEF IInv, Answers

\* A retry that is refused ends, and nothing else.
LEMMA RetryRefused ==
  ASSUME IInv, NEW r \in Retries, pc[r] = "created", Goto(r, "done"),
         UNCHANGED <<due, response, selection>>,
         UNCHANGED <<chatVars, mainDone, candidate, ranking, pool, selected, subject, expected,
                     heard>>
  PROVE  IInv'
<1>1. ChatTypeOK' /\ Chat' /\ decision' = decision
  BY ChatUnchanged
<1>2. /\ r \in Tasks /\ pc' \in [Tasks -> Steps] /\ pc'[r] = "done"
      /\ \A t \in Tasks : t # r => pc'[t] = pc[t]
  BY TasksApart, GotoIs DEF IInv, Types, Steps
<1>3. \A d \in Comments : pc'[d] = pc[d]
  BY <1>2, TasksApart
<1>4. Types'
  BY <1>1, <1>2 DEF IInv, Types
<1>5. OnItsWay' /\ OneRanks' /\ Agree'
  BY <1>1, <1>3 DEF IInv, Answers, OnItsWay, OneRanks, Agree
<1>6. Speakers'
  <2>1. /\ \A t \in Tasks : pc'[t] = "speaking" <=> pc[t] = "speaking"
        /\ \A q \in Retries : pc'[q] = "created" => pc[q] = "created"
    BY <1>2, TasksApart
  <2> QED BY <2>1 DEF IInv, Answers, Speakers, Speaks
<1> QED BY <1>1, <1>4, <1>5, <1>6 DEF IInv, Answers

LEMMA RetryKeeps ==
  ASSUME IInv, NEW r \in Retries, Retry(r) PROVE IInv'
<1> DEFINE c == subject[r]
           granted == /\ response[c].status = "FAILED" /\ response[c].attempt = expected[r]
                      /\ response[c].attempt <= MaxResponses /\ Reacquirable(c)
<1>1. c \in Comments /\ pc[r] = "created"
  BY DEF Retry, IInv, Answers, Speakers
<1>2. CASE granted
  <2> DEFINE speaks == MayAnswer
             st == IF speaks THEN "SPEAKING" ELSE "FAILED"
             res == IF speaks THEN "reserved" ELSE "released"
             attempt2 == response[c].attempt + 1
  <2>1. /\ due' = [due EXCEPT ![c] = FALSE]
        /\ response' = [response EXCEPT ![c] =
                          [status |-> st, attempt |-> attempt2, retryable |-> ~speaks]]
        /\ selection' = [Looked([selection EXCEPT ![c] = "reserved"], due') EXCEPT ![c] = res]
        /\ Goto(r, IF speaks THEN "speaking" ELSE "done")
        /\ UNCHANGED <<chatVars, mainDone, candidate, ranking, pool, selected, subject, expected,
                       heard>>
        /\ response[c].status = "FAILED" /\ selection[c] = "released"
    BY <1>1, <1>2 DEF Retry, Reacquirable, IInv, Types
  <2>2. speaks \in BOOLEAN
    BY DEF MayAnswer, IInv, Types, ChatTypeOK
  <2>3. due' \in [Comments -> BOOLEAN]
    BY <2>1 DEF IInv, Types
  <2>4. attempt2 \in Nat /\ response \in [Comments -> Responses]
    BY <1>1 DEF IInv, Types, Responses
  <2> HIDE DEF speaks, attempt2
  <2>5. /\ response' \in [Comments -> Responses]
        /\ response'[c].status = st /\ response'[c].retryable = ~speaks
        /\ \A d \in Comments : d # c => response'[d] = response[d]
    <3>1. [status |-> st, attempt |-> attempt2, retryable |-> ~speaks] \in Responses
      BY <2>2, <2>4 DEF Responses
    <3> QED BY <1>1, <2>1, <2>4, <3>1
  <2>6. res \in Selections /\ selection \in [Comments -> Selections]
    BY DEF IInv, Types, Selections
  <2>7. /\ selection' \in [Comments -> Selections] /\ selection'[c] = res
        /\ \A d \in Comments : d # c => \/ selection'[d] = selection[d]
                                        \/ selection[d] = "reserved" /\ selection'[d] = "expired"
    <3> DEFINE taken == [selection EXCEPT ![c] = "reserved"]
               looked == Looked(taken, due')
    <3>1. taken \in [Comments -> Selections] /\ \A d \in Comments : d # c => taken[d] = selection[d]
      BY <2>6 DEF Selections
    <3>2. selection' = [looked EXCEPT ![c] = res]
      BY <2>1
    <3> HIDE DEF taken
    <3>3. /\ looked \in [Comments -> Selections]
          /\ \A d \in Comments : \/ looked[d] = taken[d]
                                 \/ taken[d] = "reserved" /\ looked[d] = "expired"
      BY <3>1, LookedIs
    <3> HIDE DEF looked
    <3>4. /\ selection' \in [Comments -> Selections] /\ selection'[c] = res
          /\ \A d \in Comments : d # c => selection'[d] = looked[d]
      BY <1>1, <2>6, <3>2, <3>3
    <3> QED BY <3>1, <3>3, <3>4
  <2>8. /\ subject[r] = c /\ c \in Comments /\ pc[r] = "created"
        /\ response[c].status = "FAILED" /\ selection[c] = "released"
        /\ UNCHANGED <<chatVars, mainDone, candidate, ranking, pool, selected, subject, expected,
                       heard>>
    BY <1>1, <2>1
  <2>9. CASE speaks
    <3>1. response'[c].status = "SPEAKING" /\ selection'[c] = "reserved" /\ Goto(r, "speaking")
      BY <2>1, <2>5, <2>7, <2>9
    <3> HIDE DEF c
    <3> QED BY <2>3, <2>5, <2>7, <2>8, <3>1, RetryTaken
  <2>10. CASE ~speaks
    <3>1. /\ response'[c].status = "FAILED" /\ response'[c].retryable /\ selection'[c] = "released"
          /\ Goto(r, "done")
      BY <2>1, <2>5, <2>7, <2>10
    <3> HIDE DEF c
    <3> QED BY <2>3, <2>5, <2>7, <2>8, <3>1, RetryTaken
  <2> QED BY <2>9, <2>10
<1>3. CASE ~granted
  BY <1>1, <1>3, RetryRefused DEF Retry
<1> QED BY <1>2, <1>3

-----------------------------------------------------------------------------
LEMMA InitIInv == Init => IInv
<1> SUFFICES ASSUME Init PROVE IInv
  OBVIOUS
<1>1. /\ posted = 0 /\ live = TRUE /\ pollerPc = "poll" /\ pollerStatus = "running"
      /\ attempt = 0 /\ stopSet = FALSE /\ seen = {} /\ page = <<>> /\ dropping = 0 /\ dropped = 0
      /\ decision = [c \in Comments |-> "none"]
  BY DEF Init, ChatInit
<1>2. Cardinality({}) = 0
  BY FS_EmptySet
<1>3. MaxComments \in Nat /\ PerPoll \in Nat /\ PoolSize \in Nat /\ <<>> \in Seq(Comments) /\ Len(<<>>) = 0
  BY ChatAssumption, PipelineAssumption
<1>4. ChatTypeOK
  <2>1. decision \in [Comments -> Verdicts \cup {"none"}]
    BY <1>1
  <2>2. page \in Seq(Comments) /\ Len(page) = 0
    BY <1>1
  <2>3. posted \in 0..MaxComments /\ seen \subseteq Comments
    BY <1>1, <1>3
  <2>4. {attempt, dropping, dropped} \subseteq Nat /\ pollerPc = "poll" /\ pollerStatus = "running"
    BY <1>1
  <2>5. live \in BOOLEAN /\ stopSet \in BOOLEAN
    <3>1. TRUE \in BOOLEAN /\ FALSE \in BOOLEAN OBVIOUS
    <3> QED BY <1>1, <3>1, Zenon
  <2> QED BY <1>3, <2>1, <2>2, <2>3, <2>4, <2>5 DEF ChatTypeOK
<1>5. Chat
  <2>1. Undecided = {} BY <1>1 DEF Undecided
  <2>2. SeenIsPrefix
    <3>1. 0 \in 0..posted /\ seen = 1..0 BY <1>1
    <3> QED BY <1>1, <3>1 DEF SeenIsPrefix
  <2>3. PageWaits BY <1>1 DEF PageWaits
  <2>4. SeenIsAccountedFor BY <1>1, <1>2, <1>3, <2>1 DEF SeenIsAccountedFor, Undecided
  <2> QED BY <2>2, <2>3, <2>4 DEF Chat
<1>6. Types
  <2>1. Kept(candidate) = {} BY DEF Init, Kept
  <2>2. Cardinality(Kept(candidate)) <= PoolSize BY <1>2, <1>3, <2>1
  <2>3. candidate \in [Comments -> Candidates] /\ selection \in [Comments -> Selections]
    BY DEF Init, Candidates, Selections
  <2>4. response \in [Comments -> Responses]
    <3>1. NoResponse \in Responses BY DEF NoResponse, Responses
    <3> QED BY <3>1 DEF Init
  <2>5. /\ pc \in [Tasks -> Steps] /\ subject \in [Tasks -> 0..MaxComments]
        /\ expected \in [Tasks -> Nat] /\ heard \in [Comments -> Nat]
    BY <1>3 DEF Init, Steps
  <2>6. ranking \in 0..MaxComments /\ pool \subseteq Comments
    BY <1>3 DEF Init
  <2>7. selected \in Seq(Comments)
    BY DEF Init
  <2>8. due \in [Comments -> BOOLEAN]
    BY DEF Init
  <2>9. mainDone \in BOOLEAN
    <3>1. mainDone = FALSE BY DEF Init
    <3> QED BY <3>1
  <2> QED BY <1>4, <2>2, <2>3, <2>4, <2>5, <2>6, <2>7, <2>8, <2>9 DEF Types
<1>7. Answers
  <2>1. \A c \in Comments : c \in Tasks /\ c # 0 BY TasksApart
  <2>2. \A t \in Tasks : pc[t] = "none" BY DEF Init
  <2>3. OnItsWay /\ OneRanks
    BY <2>1, <2>2 DEF Init, OnItsWay, OneRanks
  <2>4. Agree BY DEF Init, NoResponse, Agree, Matches
  <2>5. Speakers BY <2>2, TasksApart DEF Init, NoResponse, Speakers, Speaks
  <2> QED BY <2>3, <2>4, <2>5 DEF Answers
<1> QED BY <1>5, <1>6, <1>7 DEF IInv

LEMMA NextKeeps ==
  ASSUME IInv, [Next]_vars PROVE IInv'
<1>1. CASE ChatSteps \/ MainCompletes \/ (\E c \in Comments : TimePasses(c)) \/ UNCHANGED vars
  BY <1>1, OthersKeep
<1>2. CASE Moderated
  BY <1>2, ModeratedKeeps
<1>3. ASSUME NEW t \in Tasks, TaskNext(t) PROVE IInv'
  BY <1>3, AddKeeps, BeginRankingKeeps, EndRankingKeeps, RetryKeeps, SpeechKeeps DEF TaskNext
<1>4. ASSUME NEW r \in Retries, NEW c \in Comments, SeeFailure(r, c) PROVE IInv'
  BY <1>4, SeeFailureKeeps
<1> QED BY <1>1, <1>2, <1>3, <1>4 DEF Next

\* The inductive invariant holds in every state of the pipeline, with any number of
\* comments, retries, pages and errors.
THEOREM PipelineInvariant == Spec => []IInv
<1>1. Init => IInv BY InitIInv
<1>2. IInv /\ [Next]_vars => IInv' BY NextKeeps
<1> QED BY <1>1, <1>2, PTL DEF Spec

\* The variables keep their types: the pool never holds more than max_pool_size
\* candidates (CommentRankingUsecase.add), and a page no more than the rate allows.
THEOREM PipelineTypeCorrect == Spec => []TypeOK
<1>1. IInv => TypeOK
  BY DEF IInv, Types, TypeOK, Candidates, Selections, Responses, Steps, Kept
<1> QED BY <1>1, PipelineInvariant, PTL

\* A comment that was marked as seen is decided on, waits in the page or is counted
\* as dropped, as long as the poller's task lives (check_and_mark, poll_once).
THEOREM SeenIsAccountedForCorrect == Spec => []SeenIsAccountedFor
<1>1. IInv => SeenIsAccountedFor BY DEF IInv, Chat
<1> QED BY <1>1, PipelineInvariant, PTL

\* No comment is answered twice, however its reservation runs out, its speech fails
\* and the operator's retries come in (_execute, _fail, reserve_released).
THEOREM AnsweredOnceCorrect == Spec => []AnsweredOnce
<1>1. IInv => AnsweredOnce BY DEF IInv, Answers, Agree, AnsweredOnce
<1> QED BY <1>1, PipelineInvariant, PTL

\* The two repositories agree in every state: what is completed has consumed its
\* reservation, what is retryable has given it back, and what is being spoken has
\* exactly one task that speaks it (start, _execute, _fail, retry).
THEOREM ReservationMatchesResponseCorrect == Spec => []ReservationMatchesResponse
<1>1. IInv => ReservationMatchesResponse
  <2> SUFFICES ASSUME IInv, NEW c \in Comments
               PROVE  /\ response[c].status = "COMPLETED" <=> selection[c] = "consumed"
                      /\ response[c].status = "FAILED" =>
                            (response[c].retryable <=> selection[c] = "released")
                      /\ response[c].status = "SPEAKING" =>
                            Cardinality({t \in Tasks : pc[t] = "speaking" /\ subject[t] = c}) = 1
    BY DEF ReservationMatchesResponse
  <2>1. Matches(response[c].status, selection[c], response[c].retryable)
    BY DEF IInv, Answers, Agree
  <2>2. response[c].retryable \in BOOLEAN
    BY DEF IInv, Types, Responses
  <2>3. ASSUME response[c].status = "SPEAKING"
        PROVE  Cardinality({t \in Tasks : pc[t] = "speaking" /\ subject[t] = c}) = 1
    <3>1. PICK t \in Tasks : Speaks(t, c) BY <2>3 DEF IInv, Answers, Speakers
    <3>2. {u \in Tasks : pc[u] = "speaking" /\ subject[u] = c} = {t}
      BY <3>1 DEF IInv, Answers, Speakers, Speaks
    <3> QED BY <3>2, FS_Singleton
  <2> QED BY <2>1, <2>2, <2>3 DEF Matches
<1> QED BY <1>1, PipelineInvariant, PTL

\* One task at a time ranks the pool, the one that holds the selection lock, and no
\* comment is in the ranking that was selected before (_select, the selection lock).
THEOREM OneRanksCorrect ==
  Spec => [](/\ \A c, d \in Comments : pc[c] = "ranking" /\ pc[d] = "ranking" => c = d
             /\ \A c \in pool : selection[c] = "none")
<1>1. IInv => /\ \A c, d \in Comments : pc[c] = "ranking" /\ pc[d] = "ranking" => c = d
              /\ \A c \in pool : selection[c] = "none"
  BY DEF IInv, Types, Answers, OneRanks, OnItsWay
<1> QED BY <1>1, PipelineInvariant, PTL
=============================================================================
