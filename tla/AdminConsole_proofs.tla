--------------------------- MODULE AdminConsole_proofs ---------------------------
(***************************************************************************)
(* Theorems about EventBroker, and about AdminConsole on top of it, for    *)
(* any number of clients, events and lost connections and for any sizes of *)
(* history, replay, queue and connection.                                  *)
(*                                                                         *)
(* The inductive invariant is about the line of each client: what is on    *)
(* its way to it, through the connection, the replay and the live queue.   *)
(* The steps of the system move this line as a whole: a publication adds   *)
(* to its end, an overflow puts a marker there, the reader takes from its  *)
(* beginning, and what the endpoint sends leaves it as it is.              *)
(*                                                                         *)
(* The last section is about the console's own requests: where a reload    *)
(* that was asked for is on its way to the window, and the only three      *)
(* steps in which it ends early.                                           *)
(***************************************************************************)
EXTENDS AdminConsole, FiniteSetTheorems, SequenceTheorems, TLAPS

Lines == Seq(Nat \cup {Resync})

\* An event that was seen, or has left what a replay gives.
Window == IF ReplayLimit < ReplaySize THEN ReplayLimit ELSE ReplaySize
Settled(x, n, s) == x \in s \/ x + Window <= n

(***************************************************************************)
(* In the following p is the line of a client, n what was published, s     *)
(* what the client has seen and k the newest of it, w that it is warned,   *)
(* and r that it is registered.                                            *)
(***************************************************************************)

\* The events of a line follow one another in the log without a gap.
Ordered(p, n) ==
    /\ \A i \in 1..Len(p) : p[i] # Resync => p[i] \in 1..n
    /\ \A i, j \in 1..Len(p) : p[i] # Resync /\ p[j] # Resync => p[j] - p[i] = j - i

\* A marker begins a line, or ends one that is no longer served.
Markers(p, r) == \A i \in 2..Len(p) : p[i] = Resync => i = Len(p) /\ ~r

\* A line takes up where the client is, unless it is warned, and what it repeats the
\* client knows.
TakesUp(p, s, k, w) ==
    /\ Len(p) > 0 /\ ~w /\ p[1] # Resync => p[1] <= k + 1
    /\ \A i \in 1..Len(p) : p[i] # Resync /\ p[i] <= k => p[i] \in s

\* A line that is served leads to the newest event.
Leads(p, n, k, w, r) ==
    r => /\ Len(p) > 0 /\ p[Len(p)] # Resync => p[Len(p)] = n
         /\ Len(p) = 0 /\ ~w => k = n

\* What a client was made to skip, or is going to be, no replay will repeat.
Skips(p, n, s, k, w, r) ==
    /\ \A x \in 1..k : Settled(x, n, s)
    /\ \A i \in 1..Len(p) :
          p[i] # Resync /\ ((i = 1 /\ w) \/ (i > 1 /\ p[i - 1] = Resync)) =>
              \A x \in 1..(p[i] - 1) : Settled(x, n, s)
    /\ r /\ ((Len(p) = 0 /\ w) \/ (Len(p) = 1 /\ p[1] = Resync)) =>
              \A x \in 1..n : Settled(x, n, s)

Good(p, n, s, k, w, r) ==
    /\ Ordered(p, n) /\ Markers(p, r) /\ TakesUp(p, s, k, w) /\ Leads(p, n, k, w, r)
    /\ Skips(p, n, s, k, w, r)

\* The history is the end of the log.
HistoryIsEnd ==
    /\ Len(history) = IF published < ReplaySize THEN published ELSE ReplaySize
    /\ \A i \in 1..Len(history) : history[i] = published - Len(history) + i

Newest(s) == Max(s \cup {0})

\* A client whose connection is cn, which has asked with id, and whose line is parted
\* into what is on the wire, the replay and the live queue.
Sound(cn, wi, re, li, reg, id, s, n) ==
    /\ cn = "closed" => wi = <<>>
    /\ cn # "open" => re = <<>> /\ li = <<>> /\ ~reg
    /\ \A i \in 1..Len(li) : li[i] = Resync => Len(li) = 1 /\ ~reg
    /\ s \subseteq 1..n
    /\ id \in {None, Resync} \/ id = Newest(s)
    /\ id = None => s = {}
    /\ Good(wi \o (re \o li), n, s, Newest(s), id \in {None, Resync}, reg)

Client(c) ==
    Sound(conn[c], wire[c], replay[c], live[c], registered[c], lastId[c], seen[c], published)

IInv == BrokerTypeOK /\ HistoryIsEnd /\ \A c \in Clients : Client(c)

-----------------------------------------------------------------------------
(***************************************************************************)
(* What each step does to a line, whatever the rest of the system is.      *)
(***************************************************************************)

LEMMA WindowIs == Window \in Nat \ {0} /\ Window <= ReplayLimit /\ Window <= ReplaySize
  BY BrokerAssumption DEF Window

LEMMA SettledStays ==
  ASSUME NEW n \in Nat, NEW s, NEW x \in Nat, Settled(x, n, s)
  PROVE  Settled(x, n + 1, s)
  BY WindowIs DEF Settled

\* An event for a client that is not registered.
LEMMA LineUnserved ==
  ASSUME NEW p \in Lines, NEW n \in Nat, NEW s, NEW k \in Nat, NEW w, Good(p, n, s, k, w, FALSE)
  PROVE  Good(p, n + 1, s, k, w, FALSE)
<1>1. Ordered(p, n + 1)
  BY DEF Good, Ordered
<1>2. Skips(p, n + 1, s, k, w, FALSE)
  <2>1. \A x \in Nat : Settled(x, n, s) => Settled(x, n + 1, s) BY SettledStays
  <2>2. \A i \in 1..Len(p) : p[i] # Resync => 1..(p[i] - 1) \subseteq Nat
    BY DEF Good, Ordered
  <2>3. 1..k \subseteq Nat OBVIOUS
  <2> QED BY <2>1, <2>2, <2>3 DEF Good, Skips
<1> QED BY <1>1, <1>2 DEF Good, Markers, TakesUp, Leads

\* The event that is published is the next one of a line that is served.
LEMMA LineGrows ==
  ASSUME NEW p \in Lines, NEW n \in Nat, NEW s, NEW k \in 0..n, NEW w, Good(p, n, s, k, w, TRUE)
  PROVE  Good(Append(p, n + 1), n + 1, s, k, w, TRUE)
<1> DEFINE e == n + 1
           q == Append(p, e)
           l == Len(p)
<1>1. /\ l \in Nat /\ Len(q) = l + 1 /\ q[l + 1] = e /\ e # Resync
      /\ \A i \in 1..l : q[i] = p[i] /\ i \in Nat
  BY BrokerAssumption DEF Lines
<1> HIDE DEF q, l
<1>2. \A i \in 1..(l + 1) : i \in 1..l \/ i = l + 1
  BY <1>1
<1>3. \A i \in 1..l : p[i] # Resync => p[i] \in 1..n /\ p[i] = n - (l - i)
  <2>1. ASSUME NEW i \in 1..l, p[i] # Resync PROVE p[i] \in 1..n /\ p[i] = n - (l - i)
    <3>1. l \in 1..l /\ l > 0 BY <1>1
    <3>2. p[l] # Resync
      <4>1. CASE l = 1 BY <1>1, <2>1, <4>1
      <4>2. CASE l # 1
        <5>1. l \in 2..l BY <1>1, <3>1, <4>2
        <5>2. Markers(p, TRUE) BY DEF Good
        <5> QED BY <5>1, <5>2 DEF Markers, l
      <4> QED BY <4>1, <4>2
    <3>3. p[l] = n BY <3>1, <3>2 DEF Good, Leads, l
    <3>4. p[i] \in 1..n /\ p[l] - p[i] = l - i BY <2>1, <3>1, <3>2 DEF Good, Ordered, l
    <3> QED BY <1>1, <3>3, <3>4
  <2> QED BY <2>1
<1>4. Ordered(q, e)
  <2>1. \A i \in 1..(l + 1) : q[i] # Resync => q[i] \in 1..e /\ q[i] = e - (l + 1 - i)
    BY <1>1, <1>2, <1>3
  <2> QED BY <1>1, <2>1 DEF Ordered
<1>5. Markers(q, TRUE)
  <2>1. ASSUME NEW i \in 2..(l + 1) PROVE q[i] # Resync
    <3>1. CASE i = l + 1 BY <1>1, <3>1
    <3>2. CASE i # l + 1
      <4>1. i \in 2..l /\ i \in 1..l BY <1>1, <3>2
      <4> QED BY <1>1, <4>1 DEF Good, Markers, l
    <3> QED BY <3>1, <3>2
  <2> QED BY <1>1, <2>1 DEF Markers
<1>6. TakesUp(q, s, k, w)
  <2>1. ASSUME ~w, q[1] # Resync PROVE q[1] <= k + 1
    <3>1. CASE l = 0 BY <1>1, <2>1, <3>1 DEF Good, Leads, l
    <3>2. CASE l > 0
      <4>1. q[1] = p[1] BY <1>1, <3>2
      <4> QED BY <2>1, <3>2, <4>1 DEF Good, TakesUp, l
    <3> QED BY <1>1, <3>1, <3>2
  <2>2. \A i \in 1..(l + 1) : q[i] # Resync /\ q[i] <= k => q[i] \in s
    BY <1>1, <1>2 DEF Good, TakesUp, l
  <2> QED BY <1>1, <2>1, <2>2 DEF TakesUp
<1>7. Leads(q, e, k, w, TRUE)
  BY <1>1 DEF Leads
<1>8. Skips(q, e, s, k, w, TRUE)
  <2>1. \A x \in Nat : Settled(x, n, s) => Settled(x, e, s) BY SettledStays
  <2>2. \A x \in 1..k : Settled(x, e, s)
    BY <2>1 DEF Good, Skips
  <2>3. ASSUME NEW i \in 1..(l + 1), q[i] # Resync, (i = 1 /\ w) \/ (i > 1 /\ q[i - 1] = Resync),
               NEW x \in 1..(q[i] - 1)
        PROVE  Settled(x, e, s)
    <3>1. CASE i \in 1..l
      <4>1. q[i] = p[i] /\ p[i] \in 1..n BY <1>1, <1>3, <2>3, <3>1
      <4>2. i > 1 => q[i - 1] = p[i - 1] BY <1>1, <3>1
      <4>3. Settled(x, n, s) BY <2>3, <3>1, <4>1, <4>2 DEF Good, Skips, l
      <4> QED BY <2>1, <4>1, <4>3
    <3>2. CASE i = l + 1
      <4>1. x \in 1..n BY <1>1, <2>3, <3>2
      <4>2. (l = 0 /\ w) \/ (l = 1 /\ p[1] = Resync)
        <5>1. CASE i = 1 BY <1>1, <2>3, <3>2, <5>1
        <5>2. CASE i > 1
          <6>1. l \in 1..l /\ p[l] = Resync BY <1>1, <2>3, <3>2, <5>2
          <6>2. l \notin 2..l BY <6>1 DEF Good, Markers, l
          <6> QED BY <1>1, <6>1, <6>2
        <5> QED BY <1>1, <3>2, <5>1, <5>2
      <4>3. Settled(x, n, s) BY <4>1, <4>2 DEF Good, Skips, l
      <4> QED BY <2>1, <4>1, <4>3
    <3> QED BY <1>2, <3>1, <3>2
  <2>4. ~((Len(q) = 0 /\ w) \/ (Len(q) = 1 /\ q[1] = Resync))
    BY <1>1
  <2> QED BY <1>1, <2>2, <2>3, <2>4 DEF Skips
<1> QED BY <1>4, <1>5, <1>6, <1>7, <1>8 DEF Good, q

\* The queue is full: its events give way to a marker, and the line is not served any
\* more.
LEMMA LineOverflows ==
  ASSUME NEW a \in Lines, NEW b \in Lines, NEW n \in Nat, NEW s, NEW k \in 0..n, NEW w,
         Good(a \o b, n, s, k, w, TRUE)
  PROVE  Good(Append(a, Resync), n + 1, s, k, w, FALSE)
<1> DEFINE p == a \o b
           q == Append(a, Resync)
           l == Len(a)
<1>1. /\ l \in Nat /\ Len(q) = l + 1 /\ q[l + 1] = Resync /\ Len(p) \in Nat /\ l <= Len(p)
      /\ \A i \in 1..l : q[i] = p[i] /\ i \in 1..Len(p)
  <2>1. Len(p) = Len(a) + Len(b) /\ Len(a) \in Nat /\ Len(b) \in Nat
        /\ \A i \in 1..Len(a) : p[i] = a[i]
    BY DEF Lines
  <2>2. Len(q) = Len(a) + 1 /\ q[Len(a) + 1] = Resync /\ \A i \in 1..Len(a) : q[i] = a[i]
    BY DEF Lines
  <2> HIDE DEF p, q
  <2> QED BY <2>1, <2>2
<1>2. Good(p, n, s, k, w, TRUE) OBVIOUS
<1> HIDE DEF p, q, l
<1>3. \A i \in 1..(l + 1) : q[i] # Resync => i \in 1..l
  BY <1>1
<1>4. Ordered(q, n + 1)
  <2>1. \A i \in 1..(l + 1) : q[i] # Resync => q[i] = p[i] /\ i \in 1..Len(p) /\ p[i] # Resync
    BY <1>1, <1>3
  <2>2. \A i \in 1..(l + 1) : q[i] # Resync => q[i] \in 1..(n + 1)
    BY <1>2, <2>1 DEF Good, Ordered
  <2> QED BY <1>1, <1>2, <2>1, <2>2 DEF Good, Ordered
<1>5. Markers(q, FALSE)
  <2>1. ASSUME NEW i \in 2..l, q[i] = Resync PROVE FALSE
    <3>1. i \in 1..l /\ i \in 2..Len(p) BY <1>1
    <3> QED BY <1>1, <1>2, <2>1, <3>1 DEF Good, Markers
  <2> QED BY <1>1, <2>1 DEF Markers
<1>6. TakesUp(q, s, k, w)
  <2>1. ASSUME ~w, q[1] # Resync PROVE q[1] <= k + 1
    <3>1. 1 \in 1..l BY <1>1, <1>3, <2>1
    <3> QED BY <1>1, <1>2, <2>1, <3>1 DEF Good, TakesUp
  <2>2. ASSUME NEW i \in 1..(l + 1), q[i] # Resync, q[i] <= k PROVE q[i] \in s
    BY <1>1, <1>2, <1>3, <2>2 DEF Good, TakesUp
  <2> QED BY <1>1, <2>1, <2>2 DEF TakesUp
<1>7. Leads(q, n + 1, k, w, FALSE)
  BY DEF Leads
<1>8. Skips(q, n + 1, s, k, w, FALSE)
  <2>1. \A x \in Nat : Settled(x, n, s) => Settled(x, n + 1, s) BY SettledStays
  <2>2. \A x \in 1..k : Settled(x, n + 1, s)
    BY <1>2, <2>1 DEF Good, Skips
  <2>3. ASSUME NEW i \in 1..(l + 1), q[i] # Resync, (i = 1 /\ w) \/ (i > 1 /\ q[i - 1] = Resync),
               NEW x \in 1..(q[i] - 1)
        PROVE  Settled(x, n + 1, s)
    <3>1. i \in 1..l /\ q[i] = p[i] /\ i \in 1..Len(p) BY <1>1, <1>3, <2>3
    <3>2. i > 1 => q[i - 1] = p[i - 1] BY <1>1, <3>1
    <3>3. Settled(x, n, s) BY <1>2, <2>3, <3>1, <3>2 DEF Good, Skips
    <3>4. x \in Nat BY <1>2, <2>3, <3>1 DEF Good, Ordered
    <3> QED BY <2>1, <3>3, <3>4
  <2> QED BY <1>1, <2>2, <2>3 DEF Skips
<1> QED BY <1>4, <1>5, <1>6, <1>7, <1>8 DEF Good, q

LEMMA TailOf ==
  ASSUME NEW p \in Lines, Len(p) > 0
  PROVE  /\ Tail(p) \in Lines /\ Len(p) \in Nat /\ Len(Tail(p)) = Len(p) - 1
         /\ \A i \in 1..(Len(p) - 1) : Tail(p)[i] = p[i + 1] /\ i + 1 \in 1..Len(p) /\ i + 1 \in 2..Len(p)
  BY DEF Lines

\* Whatever is read first, the rest of a line stays in order.
LEMMA RestInOrder ==
  ASSUME NEW p \in Lines, Len(p) > 0, NEW n \in Nat, NEW r, Ordered(p, n), Markers(p, r)
  PROVE  Ordered(Tail(p), n) /\ Markers(Tail(p), r)
<1> DEFINE q == Tail(p)
           l == Len(p)
<1>1. /\ l \in Nat /\ l > 0 /\ Len(q) = l - 1
      /\ \A i \in 1..(l - 1) : q[i] = p[i + 1] /\ i + 1 \in 1..l /\ i + 1 \in 2..l
  BY TailOf
<1> HIDE DEF q, l
<1>2. Ordered(q, n)
  <2>1. \A i \in 1..(l - 1) : q[i] # Resync => q[i] \in 1..n
    BY <1>1 DEF Ordered, l
  <2>2. \A i, j \in 1..(l - 1) : q[i] # Resync /\ q[j] # Resync => q[j] - q[i] = (j + 1) - (i + 1)
    BY <1>1 DEF Ordered, l
  <2>3. \A i, j \in 1..(l - 1) : (j + 1) - (i + 1) = j - i
    BY <1>1
  <2> QED BY <1>1, <2>1, <2>2, <2>3 DEF Ordered
<1>3. Markers(q, r)
  <2>1. ASSUME NEW i \in 2..(l - 1), q[i] = Resync PROVE i = l - 1 /\ ~r
    <3>1. q[i] = p[i + 1] /\ i + 1 \in 2..l BY <1>1
    <3>2. i + 1 = l /\ ~r BY <2>1, <3>1 DEF Markers, l
    <3> QED BY <1>1, <3>2
  <2> QED BY <1>1, <2>1 DEF Markers
<1> QED BY <1>2, <1>3 DEF q

\* Behind what is read first, a marker ends the line, which is not served then.
LEMMA NoneBehindMarker ==
  ASSUME NEW p \in Lines, Len(p) > 0, NEW r, Markers(p, r)
  PROVE  /\ \A i \in 2..(Len(p) - 1) : Tail(p)[i - 1] # Resync
         /\ r => \A i \in 1..(Len(p) - 1) : Tail(p)[i] # Resync
<1> DEFINE q == Tail(p)
           l == Len(p)
<1>1. /\ l \in Nat /\ l > 0 /\ Len(q) = l - 1
      /\ \A i \in 1..(l - 1) : q[i] = p[i + 1] /\ i + 1 \in 1..l /\ i + 1 \in 2..l
  BY TailOf
<1>2. \A i \in 2..l : p[i] = Resync => i = l /\ ~r
  BY DEF Markers
<1> HIDE DEF q, l
<1>3. \A i \in 1..(l - 1) : q[i] = Resync => i = l - 1 /\ ~r
  BY <1>1, <1>2
<1>4. \A i \in 2..(l - 1) : i - 1 \in 1..(l - 1) /\ i - 1 # l - 1
  BY <1>1
<1> QED BY <1>3, <1>4 DEF q, l

\* The client reads an event it has seen.
LEMMA LineReadAgain ==
  ASSUME NEW p \in Lines, NEW n \in Nat, NEW s \in SUBSET (1..n), NEW k \in 0..n, NEW w, NEW r,
         \A x \in s : x <= k, Len(p) > 0, p[1] \in s, Good(p, n, s, k, w, r)
  PROVE  Good(Tail(p), n, s, k, w, r)
<1> DEFINE q == Tail(p)
           l == Len(p)
<1>1. /\ l \in Nat /\ l > 0 /\ Len(q) = l - 1
      /\ \A i \in 1..(l - 1) : q[i] = p[i + 1] /\ i + 1 \in 1..l /\ i + 1 \in 2..l
  BY TailOf
<1>2. Ordered(q, n) /\ Markers(q, r)
  BY RestInOrder DEF Good
<1>3. /\ \A i \in 2..(l - 1) : q[i - 1] # Resync
      /\ r => \A i \in 1..(l - 1) : q[i] # Resync
  BY NoneBehindMarker DEF Good
<1>4. 1 \in 1..l /\ p[1] # Resync /\ p[1] \in Nat /\ p[1] <= k
  <2>1. p[1] \in 1..n OBVIOUS
  <2>2. p[1] \in Nat BY <2>1
  <2>3. p[1] # Resync BY <2>2, BrokerAssumption
  <2> QED BY <1>1, <2>2, <2>3
<1> HIDE DEF q, l
<1>5. l > 1 /\ q[1] # Resync => q[1] = p[1] + 1 /\ q[1] \in 1..n
  <2>1. ASSUME l > 1, q[1] # Resync PROVE q[1] = p[1] + 1 /\ q[1] \in 1..n
    <3>1. 1 \in 1..(l - 1) /\ q[1] = p[2] /\ 2 \in 1..l BY <1>1, <2>1
    <3>2. p[2] - p[1] = 2 - 1 /\ p[2] \in 1..n BY <1>4, <2>1, <3>1 DEF Good, Ordered, l
    <3> QED BY <1>4, <3>1, <3>2
  <2> QED BY <2>1
<1>6. l = 1 /\ r => p[1] = n
  BY <1>4 DEF Good, Leads, l
<1>7. TakesUp(q, s, k, w)
  <2>1. \A i \in 1..(l - 1) : q[i] # Resync /\ q[i] <= k => q[i] \in s
    BY <1>1 DEF Good, TakesUp, l
  <2>2. l - 1 > 0 /\ q[1] # Resync => q[1] <= k + 1
    BY <1>1, <1>4, <1>5
  <2> QED BY <1>1, <2>1, <2>2 DEF TakesUp
<1>8. Leads(q, n, k, w, r)
  <2>1. l = 1 /\ r => k = n BY <1>4, <1>6
  <2>2. l > 1 /\ r /\ q[l - 1] # Resync => q[l - 1] = n
    <3>1. l > 1 => l - 1 \in 1..(l - 1) /\ q[l - 1] = p[l] BY <1>1
    <3> QED BY <1>1, <3>1 DEF Good, Leads, l
  <2> QED BY <1>1, <2>1, <2>2 DEF Leads
<1>9. Skips(q, n, s, k, w, r)
  <2>1. w => \A x \in 1..p[1] : Settled(x, n, s)
    <3>1. w => \A x \in 1..(p[1] - 1) : Settled(x, n, s)
      BY <1>4 DEF Good, Skips, l
    <3>2. Settled(p[1], n, s) BY DEF Settled
    <3>3. \A x \in 1..p[1] : x = p[1] \/ x \in 1..(p[1] - 1) BY <1>4
    <3> QED BY <3>1, <3>2, <3>3
  <2>2. \A x \in 1..k : Settled(x, n, s) BY DEF Good, Skips
  <2>3. ASSUME NEW i \in 1..(l - 1), q[i] # Resync, (i = 1 /\ w) \/ (i > 1 /\ q[i - 1] = Resync),
               NEW x \in 1..(q[i] - 1)
        PROVE  Settled(x, n, s)
    <3>1. i = 1 /\ w BY <1>1, <1>3, <2>3
    <3>2. x \in 1..p[1] BY <1>1, <1>4, <1>5, <2>3, <3>1
    <3> QED BY <2>1, <3>1, <3>2
  <2>4. ASSUME r, (l - 1 = 0 /\ w) \/ (l - 1 = 1 /\ q[1] = Resync), NEW x \in 1..n
        PROVE  Settled(x, n, s)
    <3>1. l = 1 /\ w BY <1>1, <1>3, <2>4
    <3> QED BY <1>6, <2>1, <2>4, <3>1
  <2> QED BY <1>1, <2>2, <2>3, <2>4 DEF Skips
<1> QED BY <1>2, <1>7, <1>8, <1>9 DEF Good, q

\* The client reads a marker, and is warned.
LEMMA LineWarns ==
  ASSUME NEW p \in Lines, NEW n \in Nat, NEW s, NEW k \in 0..n, NEW w, NEW r,
         Len(p) > 0, p[1] = Resync, Good(p, n, s, k, w, r)
  PROVE  Good(Tail(p), n, s, k, TRUE, r)
<1> DEFINE q == Tail(p)
           l == Len(p)
<1>1. /\ l \in Nat /\ l > 0 /\ Len(q) = l - 1
      /\ \A i \in 1..(l - 1) : q[i] = p[i + 1] /\ i + 1 \in 1..l /\ i + 1 \in 2..l
  BY TailOf
<1>2. Ordered(q, n) /\ Markers(q, r)
  BY RestInOrder DEF Good
<1>3. /\ \A i \in 2..(l - 1) : q[i - 1] # Resync
      /\ r => \A i \in 1..(l - 1) : q[i] # Resync
  BY NoneBehindMarker DEF Good
<1> HIDE DEF q, l
<1>4. TakesUp(q, s, k, TRUE)
  BY <1>1 DEF Good, TakesUp, l
<1>5. Leads(q, n, k, TRUE, r)
  <2>1. l > 1 => l - 1 \in 1..(l - 1) /\ q[l - 1] = p[l] BY <1>1
  <2> QED BY <1>1, <2>1 DEF Good, Leads, l
<1>6. Skips(q, n, s, k, TRUE, r)
  <2>1. \A x \in 1..k : Settled(x, n, s) BY DEF Good, Skips
  <2>2. ASSUME NEW i \in 1..(l - 1), q[i] # Resync, (i = 1 /\ TRUE) \/ (i > 1 /\ q[i - 1] = Resync),
               NEW x \in 1..(q[i] - 1)
        PROVE  Settled(x, n, s)
    <3>1. i = 1 BY <1>1, <1>3, <2>2
    <3>2. q[1] = p[2] /\ 2 \in 1..l BY <1>1, <3>1
    <3>3. 2 > 1 /\ p[2 - 1] = Resync OBVIOUS
    <3> QED BY <2>2, <3>1, <3>2, <3>3 DEF Good, Skips, l
  <2>3. ASSUME r, (l - 1 = 0 /\ TRUE) \/ (l - 1 = 1 /\ q[1] = Resync), NEW x \in 1..n
        PROVE  Settled(x, n, s)
    <3>1. l = 1 BY <1>1, <1>3, <2>3
    <3> QED BY <2>3, <3>1 DEF Good, Skips, l
  <2> QED BY <1>1, <2>1, <2>2, <2>3 DEF Skips
<1> QED BY <1>2, <1>4, <1>5, <1>6 DEF Good, q

\* The client reads an event that is new to it: it is the next one, or the client was
\* warned.
LEMMA LineReads ==
  ASSUME NEW p \in Lines, NEW n \in Nat, NEW s \in SUBSET (1..n), NEW k \in 0..n, NEW w, NEW r,
         Len(p) > 0, p[1] # Resync, p[1] \notin s, Good(p, n, s, k, w, r)
  PROVE  /\ p[1] \in (k + 1)..n /\ (p[1] = k + 1 \/ w)
         /\ Good(Tail(p), n, s \cup {p[1]}, p[1], FALSE, r)
<1> DEFINE q == Tail(p)
           l == Len(p)
           e == p[1]
           t == s \cup {e}
<1>1. /\ l \in Nat /\ l > 0 /\ Len(q) = l - 1
      /\ \A i \in 1..(l - 1) : q[i] = p[i + 1] /\ i + 1 \in 1..l /\ i + 1 \in 2..l
  BY TailOf
<1>2. Ordered(q, n) /\ Markers(q, r)
  BY RestInOrder DEF Good
<1>3. /\ \A i \in 2..(l - 1) : q[i - 1] # Resync
      /\ r => \A i \in 1..(l - 1) : q[i] # Resync
  BY NoneBehindMarker DEF Good
<1>4. 1 \in 1..l /\ e \in 1..n /\ e # Resync
  BY <1>1 DEF Good, Ordered
<1>5. e > k /\ (e = k + 1 \/ w)
  BY <1>1, <1>4 DEF Good, TakesUp
<1> HIDE DEF q, l
<1>6. \A i \in 1..(l - 1) : q[i] # Resync => q[i] = e + i
  <2>1. ASSUME NEW i \in 1..(l - 1), q[i] # Resync PROVE q[i] = e + i
    <3>1. q[i] = p[i + 1] /\ i + 1 \in 1..l BY <1>1
    <3>2. p[i + 1] - e = (i + 1) - 1 /\ p[i + 1] \in 1..n BY <1>4, <2>1, <3>1 DEF Good, Ordered, l
    <3> QED BY <1>1, <1>4, <3>1, <3>2
  <2> QED BY <2>1
<1>7. l = 1 /\ r => e = n
  BY <1>4 DEF Good, Leads, l
<1> HIDE DEF e
<1>8. TakesUp(q, t, e, FALSE)
  <2>1. \A i \in 1..(l - 1) : q[i] # Resync => q[i] > e BY <1>1, <1>4, <1>6
  <2>2. l - 1 > 0 /\ q[1] # Resync => q[1] <= e + 1 BY <1>1, <1>4, <1>6
  <2>3. \A i \in 1..(l - 1) : ~(q[i] # Resync /\ q[i] <= e) BY <1>1, <1>4, <1>6
  <2> QED BY <1>1, <2>2, <2>3 DEF TakesUp
<1>9. Leads(q, n, e, FALSE, r)
  <2>1. l > 1 => l - 1 \in 1..(l - 1) /\ q[l - 1] = p[l] BY <1>1
  <2> QED BY <1>1, <1>7, <2>1 DEF Good, Leads, l
<1>10. Skips(q, n, t, e, FALSE, r)
  <2>1. \A x \in 1..e : Settled(x, n, t)
    <3>1. \A x \in 1..(e - 1) : Settled(x, n, s)
      <4>1. CASE w BY <1>4, <4>1 DEF Good, Skips, l, e
      <4>2. CASE e = k + 1
        <5>1. 1..(e - 1) = 1..k BY <4>2
        <5> QED BY <5>1 DEF Good, Skips
      <4> QED BY <1>5, <4>1, <4>2
    <3>2. \A x \in 1..e : x = e \/ x \in 1..(e - 1) BY <1>4
    <3> QED BY <3>1, <3>2 DEF Settled
  <2>2. ASSUME NEW i \in 1..(l - 1), q[i] # Resync, (i = 1 /\ FALSE) \/ (i > 1 /\ q[i - 1] = Resync)
        PROVE  FALSE
    BY <1>1, <1>3, <2>2
  <2>3. ~(r /\ ((l - 1 = 0 /\ FALSE) \/ (l - 1 = 1 /\ q[1] = Resync)))
    BY <1>1, <1>3
  <2> QED BY <1>1, <2>1, <2>2, <2>3 DEF Skips
<1>11. Good(q, n, t, e, FALSE, r)
  BY <1>2, <1>8, <1>9, <1>10 DEF Good
<1>12. e \in (k + 1)..n
  BY <1>4, <1>5
<1> QED BY <1>5, <1>11, <1>12 DEF q, e

-----------------------------------------------------------------------------
(***************************************************************************)
(* What a client gets when it connects.                                    *)
(***************************************************************************)

\* A line that begins with the last events of the log, without a marker.
LEMMA LineFromEvents ==
  ASSUME NEW b \in Lines, NEW n \in Nat, NEW z \in 0..n, Len(b) = z,
         \A i \in 1..z : b[i] = n - z + i,
         NEW s, NEW k \in 0..n, NEW w \in BOOLEAN, k <= n - z, ~w => k = n - z,
         \A x \in 1..(n - z) : Settled(x, n, s)
  PROVE  Good(b, n, s, k, w, TRUE)
<1>1. \A i \in 1..z : b[i] \in 1..n /\ b[i] # Resync /\ b[i] > k
  <2>1. \A i \in 1..z : n - z + i \in 1..n /\ n - z + i > k OBVIOUS
  <2>2. \A y \in 1..n : y # Resync BY BrokerAssumption
  <2> QED BY <2>1, <2>2
<1>2. Ordered(b, n)
  <2>1. \A i, j \in 1..z : b[j] - b[i] = j - i OBVIOUS
  <2> QED BY <1>1, <2>1 DEF Ordered
<1>3. Markers(b, TRUE)
  BY <1>1 DEF Markers
<1>4. TakesUp(b, s, k, w)
  <2>1. \A i \in 1..z : ~(b[i] <= k) BY <1>1
  <2>2. z > 0 /\ ~w => b[1] <= k + 1
    <3>1. z > 0 => 1 \in 1..z OBVIOUS
    <3> QED BY <3>1
  <2> QED BY <2>1, <2>2 DEF TakesUp
<1>5. Leads(b, n, k, w, TRUE)
  <2>1. z > 0 => z \in 1..z /\ b[z] = n OBVIOUS
  <2> QED BY <2>1 DEF Leads
<1>6. Skips(b, n, s, k, w, TRUE)
  <2>1. \A x \in 1..k : Settled(x, n, s) OBVIOUS
  <2>2. ASSUME NEW i \in 1..z, (i = 1 /\ w) \/ (i > 1 /\ b[i - 1] = Resync), NEW x \in 1..(b[i] - 1)
        PROVE  Settled(x, n, s)
    <3>1. i > 1 => i - 1 \in 1..z OBVIOUS
    <3>2. i = 1 BY <1>1, <2>2, <3>1
    <3>3. b[1] = n - z + 1 BY <3>2
    <3> QED BY <2>2, <3>2, <3>3
  <2>3. z = 0 => \A x \in 1..n : Settled(x, n, s) OBVIOUS
  <2>4. ~(z = 1 /\ b[1] = Resync) BY <1>1
  <2> QED BY <2>1, <2>2, <2>3, <2>4 DEF Skips
<1> QED BY <1>2, <1>3, <1>4, <1>5, <1>6 DEF Good

\* A line that begins with a marker, and goes on with the last events of the log.
LEMMA LineFromMarker ==
  ASSUME NEW b \in Lines, NEW n \in Nat, NEW z \in 0..n, Len(b) = z,
         \A i \in 1..z : b[i] = n - z + i,
         NEW s, NEW k \in 0..n, NEW w \in BOOLEAN,
         \A x \in (n - z + 1)..n : x <= k => x \in s,
         \A x \in 1..(n - z) : Settled(x, n, s),
         \A x \in 1..k : Settled(x, n, s)
  PROVE  Good(<<Resync>> \o b, n, s, k, w, TRUE)
<1> DEFINE p == <<Resync>> \o b
<1>1. /\ Len(p) = z + 1 /\ p[1] = Resync
      /\ \A i \in 2..(z + 1) : p[i] = b[i - 1] /\ i - 1 \in 1..z
  BY DEF Lines
<1> HIDE DEF p
<1>2. \A i \in 2..(z + 1) : p[i] = n - z + (i - 1) /\ p[i] \in (n - z + 1)..n /\ p[i] \in 1..n /\ p[i] # Resync
  <2>1. \A i \in 2..(z + 1) : p[i] = n - z + (i - 1) BY <1>1
  <2>2. \A i \in 2..(z + 1) : n - z + (i - 1) \in (n - z + 1)..n /\ n - z + (i - 1) \in 1..n OBVIOUS
  <2>3. \A y \in 1..n : y # Resync BY BrokerAssumption
  <2> QED BY <2>1, <2>2, <2>3
<1>3. \A i \in 1..(z + 1) : i = 1 \/ i \in 2..(z + 1)
  OBVIOUS
<1>4. Ordered(p, n)
  <2>1. \A i \in 1..(z + 1) : p[i] # Resync => i \in 2..(z + 1) BY <1>1, <1>3
  <2>2. \A i, j \in 2..(z + 1) : p[j] - p[i] = j - i BY <1>2
  <2> QED BY <1>1, <1>2, <2>1, <2>2 DEF Ordered
<1>5. Markers(p, TRUE)
  BY <1>1, <1>2 DEF Markers
<1>6. TakesUp(p, s, k, w)
  <2>1. ASSUME NEW i \in 1..(z + 1), p[i] # Resync, p[i] <= k PROVE p[i] \in s
    <3>1. i \in 2..(z + 1) BY <1>1, <1>3, <2>1
    <3> QED BY <1>2, <2>1, <3>1
  <2> QED BY <1>1, <2>1 DEF TakesUp
<1>7. Leads(p, n, k, w, TRUE)
  <2>1. ASSUME p[z + 1] # Resync PROVE p[z + 1] = n
    <3>1. z + 1 \in 2..(z + 1) BY <1>1, <2>1
    <3> QED BY <1>2, <3>1
  <2> QED BY <1>1, <2>1 DEF Leads
<1>8. Skips(p, n, s, k, w, TRUE)
  <2>1. ASSUME NEW i \in 1..(z + 1), p[i] # Resync, (i = 1 /\ w) \/ (i > 1 /\ p[i - 1] = Resync),
               NEW x \in 1..(p[i] - 1)
        PROVE  Settled(x, n, s)
    <3>1. i \in 2..(z + 1) BY <1>1, <1>3, <2>1
    <3>2. i - 1 \in 2..(z + 1) => p[i - 1] # Resync BY <1>2
    <3>3. i = 2 BY <2>1, <3>1, <3>2
    <3>4. p[2] = n - z + 1 BY <1>2, <3>1, <3>3
    <3> QED BY <2>1, <3>3, <3>4
  <2>2. z + 1 = 1 => \A x \in 1..n : Settled(x, n, s)
    OBVIOUS
  <2>3. z + 1 # 0 OBVIOUS
  <2> QED BY <1>1, <2>1, <2>2, <2>3 DEF Skips
<1> QED BY <1>4, <1>5, <1>6, <1>7, <1>8 DEF Good, p

LEMMA TailsIs ==
  ASSUME NEW q \in Seq(Nat), NEW m \in Nat
  PROVE  /\ Tails(q, m) \in Seq(Nat)
         /\ Len(Tails(q, m)) = IF Len(q) > m THEN m ELSE Len(q)
         /\ \A i \in 1..Len(Tails(q, m)) : Tails(q, m)[i] = q[Len(q) - Len(Tails(q, m)) + i]
<1>1. Len(q) \in Nat OBVIOUS
<1>2. CASE Len(q) > m
  <2> DEFINE a == Len(q) - m + 1
             u == SubSeq(q, a, Len(q))
  <2>1. a \in 1..(Len(q) + 1) /\ Len(q) - a + 1 = m BY <1>1, <1>2
  <2>2. u \in Seq(Nat) /\ Len(u) = m /\ \A i \in 1..m : u[i] = q[a + i - 1]
    <3>1. a \in Int /\ Len(q) \in Int /\ \A i \in a..Len(q) : q[i] \in Nat BY <2>1
    <3> QED BY <1>1, <1>2, <2>1, <3>1, SubSeqProperties
  <2>3. Tails(q, m) = u BY <1>2 DEF Tails
  <2>4. \A i \in 1..m : a + i - 1 = Len(q) - m + i BY <1>1
  <2> HIDE DEF u
  <2>5. \A i \in 1..m : u[i] = q[Len(q) - m + i] BY <1>1, <2>2, <2>4
  <2> QED BY <1>2, <2>2, <2>3, <2>5
<1>3. CASE ~(Len(q) > m)
  <2>1. Tails(q, m) = q BY <1>3 DEF Tails
  <2>2. \A i \in 1..Len(q) : Len(q) - Len(q) + i = i BY <1>1
  <2> QED BY <1>3, <2>1, <2>2
<1> QED BY <1>2, <1>3

\* Where an event is in the history, that is the end of the log.
LEMMA PlaceIs ==
  ASSUME history \in Seq(Nat), published \in Nat, HistoryIsEnd, NEW id
  PROVE  /\ PlaceOf(id) \in 0..Len(history) /\ Len(history) \in 0..published
         /\ PlaceOf(id) # 0 => id = published - Len(history) + PlaceOf(id)
         /\ PlaceOf(id) = 0 => id \notin (published - Len(history) + 1)..published
<1> DEFINE h == Len(history)
           n == published
           Known == \E i \in DOMAIN history : history[i] = id
<1>1. DOMAIN history = 1..h /\ h \in 0..n
  BY BrokerAssumption DEF HistoryIsEnd
<1>2. \A i \in 1..h : history[i] = n - h + i
  BY DEF HistoryIsEnd
<1>3. CASE Known
  <2>1. PlaceOf(id) \in 1..h /\ history[PlaceOf(id)] = id
    BY <1>1, <1>3 DEF PlaceOf
  <2> QED BY <1>1, <1>2, <2>1
<1>4. CASE ~Known
  <2>1. PlaceOf(id) = 0 BY <1>4 DEF PlaceOf
  <2>2. ASSUME id \in (n - h + 1)..n PROVE FALSE
    <3>1. id - (n - h) \in 1..h /\ n - h + (id - (n - h)) = id BY <1>1, <2>2
    <3> QED BY <1>1, <1>2, <1>4, <3>1
  <2> QED BY <1>1, <2>1, <2>2
<1> QED BY <1>3, <1>4

\* How many events follow it, as far as the limit allows.
Size(id) ==
    IF Len(history) - PlaceOf(id) > ReplayLimit THEN ReplayLimit ELSE Len(history) - PlaceOf(id)

LEMMA BehindIs ==
  ASSUME history \in Seq(Nat), published \in Nat, HistoryIsEnd, NEW id
  PROVE  /\ Behind(id) \in Seq(Nat) /\ Len(Behind(id)) = Size(id) /\ Size(id) \in 0..published
         /\ Size(id) <= ReplayLimit
         /\ \A i \in 1..Size(id) : Behind(id)[i] = published - Size(id) + i
<1> DEFINE h == Len(history)
           n == published
           m == PlaceOf(id)
           q == SubSeq(history, m + 1, h)
           z == Size(id)
<1>1. h \in 0..n /\ m \in 0..h
  BY PlaceIs
<1>2. \A i \in 1..h : history[i] = n - h + i
  BY DEF HistoryIsEnd
<1> HIDE DEF h, m
<1>3. q \in Seq(Nat) /\ Len(q) = h - m /\ \A i \in 1..(h - m) : q[i] = history[m + i]
  <2>1. m + 1 \in Int /\ h \in Int /\ \A i \in (m + 1)..h : history[i] \in Nat
    BY <1>1, <1>2
  <2>2. /\ q \in Seq(Nat) /\ Len(q) = IF m + 1 <= h THEN h - (m + 1) + 1 ELSE 0
        /\ \A i \in 1..(h - (m + 1) + 1) : q[i] = history[m + 1 + i - 1]
    BY <2>1, SubSeqProperties
  <2>3. h - (m + 1) + 1 = h - m
    BY <1>1
  <2>4. Len(q) = h - m
    <3>1. CASE m + 1 <= h BY <2>2, <2>3, <3>1
    <3>2. CASE ~(m + 1 <= h)
      <4>1. h - m = 0 BY <1>1, <3>2
      <4> QED BY <2>2, <3>2, <4>1
    <3> QED BY <3>1, <3>2
  <2>5. ASSUME NEW i \in 1..(h - m) PROVE q[i] = history[m + i]
    <3>1. m + 1 + i - 1 = m + i BY <1>1
    <3>2. q[i] = history[m + 1 + i - 1] BY <2>2, <2>3
    <3> QED BY <3>1, <3>2
  <2> QED BY <2>2, <2>4, <2>5
<1>4. Behind(id) = Tails(q, ReplayLimit)
  BY DEF Behind, h, m
<1>5. ReplayLimit \in Nat BY BrokerAssumption
<1>6. z = (IF Len(q) > ReplayLimit THEN ReplayLimit ELSE Len(q)) /\ z \in 0..n /\ z <= ReplayLimit /\ z <= h - m
  <2>1. z = IF h - m > ReplayLimit THEN ReplayLimit ELSE h - m
    BY DEF Size, h, m
  <2> HIDE DEF z, q
  <2> QED BY <1>1, <1>3, <1>5, <2>1
<1> HIDE DEF q, z
<1>7. /\ Behind(id) \in Seq(Nat) /\ Len(Behind(id)) = z
      /\ \A i \in 1..z : Behind(id)[i] = q[Len(q) - z + i]
  <2>1. q \in Seq(Nat) BY <1>3
  <2>2. z = IF Len(q) > ReplayLimit THEN ReplayLimit ELSE Len(q) BY <1>6
  <2>3. /\ Tails(q, ReplayLimit) \in Seq(Nat) /\ Len(Tails(q, ReplayLimit)) = z
        /\ \A i \in 1..z : Tails(q, ReplayLimit)[i] = q[Len(q) - z + i]
    <3> DEFINE t == Tails(q, ReplayLimit)
    <3>1. /\ t \in Seq(Nat) /\ Len(t) = IF Len(q) > ReplayLimit THEN ReplayLimit ELSE Len(q)
          /\ \A i \in 1..Len(t) : t[i] = q[Len(q) - Len(t) + i]
      BY <1>5, <2>1, TailsIs
    <3> HIDE DEF t
    <3>2. Len(t) = z BY <2>2, <3>1
    <3> QED BY <3>1, <3>2 DEF t
  <2> QED BY <1>4, <2>3
<1>8. \A i \in 1..z : q[Len(q) - z + i] = n - z + i
  <2>1. ASSUME NEW i \in 1..z PROVE q[Len(q) - z + i] = n - z + i
    <3>1. Len(q) - z + i \in 1..(h - m) /\ m + (Len(q) - z + i) \in 1..h BY <1>1, <1>3, <1>6
    <3>2. q[Len(q) - z + i] = n - h + (m + (Len(q) - z + i)) BY <1>2, <1>3, <3>1
    <3> QED BY <1>1, <1>3, <1>6, <3>2
  <2> QED BY <2>1
<1> QED BY <1>6, <1>7, <1>8 DEF z

\* The line of a client that has just connected.
LEMMA LineBegins ==
  ASSUME history \in Seq(Nat), published \in Nat, HistoryIsEnd,
         NEW s \in SUBSET (1..published), NEW k \in 0..published, NEW w \in BOOLEAN, NEW id,
         \A x \in 1..k : Settled(x, published, s),
         w => id \in {None, Resync}, id = None => k = 0, ~w => id = k /\ k > 0
  PROVE  /\ Good(SelectReplay(id), published, s, k, w, TRUE)
         /\ SelectReplay(id) \in Lines /\ Len(SelectReplay(id)) <= ReplayLimit + 1
<1> DEFINE h == Len(history)
           n == published
           m == PlaceOf(id)
           z == Size(id)
           b == Behind(id)
<1>1. /\ m \in 0..h /\ h \in 0..n /\ (m # 0 => id = n - h + m)
      /\ (m = 0 => id \notin (n - h + 1)..n)
  BY PlaceIs
<1>2. /\ b \in Seq(Nat) /\ Len(b) = z /\ z \in 0..n /\ z <= ReplayLimit
      /\ \A i \in 1..z : b[i] = n - z + i
  BY BehindIs
<1>3. z = IF h - m > ReplayLimit THEN ReplayLimit ELSE h - m
  BY DEF Size
<1>4. h = (IF n < ReplaySize THEN n ELSE ReplaySize) /\ {ReplaySize, ReplayLimit} \subseteq Nat
  BY BrokerAssumption DEF HistoryIsEnd
<1>5. b \in Lines
  <2>1. \A q \in Seq(Nat) : q \in Seq(Nat \cup {Resync}) OBVIOUS
  <2> QED BY <1>2, <2>1 DEF Lines
<1> HIDE DEF h, m, z, b
<1>6. w => m = 0
  <2>1. \A y \in Nat : y # None /\ y # Resync BY BrokerAssumption
  <2>2. m # 0 => id \in Nat BY <1>1
  <2> QED BY <2>1, <2>2
<1>7. m = 0 \/ h - m > ReplayLimit => \A x \in 1..(n - z) : Settled(x, n, s)
  <2>1. m = 0 \/ h - m > ReplayLimit => z >= Window \/ z = n
    BY <1>1, <1>2, <1>3, <1>4, WindowIs DEF Window
  <2>2. z >= Window => \A x \in 1..(n - z) : x + Window <= n
    BY <1>2, WindowIs
  <2>3. z = n => 1..(n - z) = {} BY <1>2
  <2> QED BY <2>1, <2>2, <2>3 DEF Settled
<1>8. \A x \in (n - z + 1)..n : x <= k => x \in s
  <2>1. ASSUME NEW x \in (n - z + 1)..n, x <= k PROVE x \in s
    <3>1. CASE m # 0
      <4>1. id = n - h + m /\ ~w BY <1>1, <1>6, <3>1
      <4>2. k = n - h + m /\ z <= h - m BY <1>1, <1>2, <1>3, <4>1
      <4> QED BY <1>1, <1>2, <2>1, <4>2
    <3>2. CASE m = 0
      <4>1. z <= Window BY <1>1, <1>2, <1>3, <1>4, <3>2 DEF Window
      <4>2. x \in 1..k BY <1>2, <2>1
      <4>3. ~(x + Window <= n) BY <1>2, <2>1, <4>1, WindowIs
      <4> QED BY <4>2, <4>3 DEF Settled
    <3> QED BY <3>1, <3>2
  <2> QED BY <2>1
<1>9. CASE (id = None \/ m # 0) /\ h - m <= ReplayLimit
  <2>1. SelectReplay(id) = b BY <1>9 DEF SelectReplay, h, m, b
  <2>2. z = h - m BY <1>1, <1>3, <1>4, <1>9
  <2>3. ~w => k = n - z
    <3>1. \A y \in Nat : y # None BY BrokerAssumption
    <3> QED BY <1>1, <1>9, <2>2, <3>1
  <2>4. k <= n - z
    BY <1>2, <1>6, <1>9, <2>3
  <2>5. \A x \in 1..(n - z) : Settled(x, n, s)
    <3>1. CASE m = 0 BY <1>7, <3>1
    <3>2. CASE m # 0
      <4>1. n - z = k BY <1>6, <2>3, <3>2
      <4> QED BY <4>1
    <3> QED BY <3>1, <3>2
  <2>6. Good(b, n, s, k, w, TRUE)
    BY <1>2, <1>5, <2>3, <2>4, <2>5, LineFromEvents
  <2>7. Len(b) <= ReplayLimit + 1
    BY <1>2, <1>4
  <2> QED BY <1>5, <2>1, <2>6, <2>7
<1>10. CASE ~((id = None \/ m # 0) /\ h - m <= ReplayLimit)
  <2>1. SelectReplay(id) = <<Resync>> \o b BY <1>10 DEF SelectReplay, h, m, b
  <2>2. m = 0 \/ h - m > ReplayLimit BY <1>1, <1>4, <1>10
  <2>3. Good(<<Resync>> \o b, n, s, k, w, TRUE)
    BY <1>2, <1>5, <1>7, <1>8, <2>2, LineFromMarker
  <2>4. <<Resync>> \in Lines /\ Len(<<Resync>>) = 1
    BY DEF Lines
  <2>5. <<Resync>> \o b \in Lines /\ Len(<<Resync>> \o b) = 1 + z
    BY <1>2, <1>5, <2>4 DEF Lines
  <2>6. 1 + z <= ReplayLimit + 1
    BY <1>2, <1>4
  <2> QED BY <2>1, <2>3, <2>5, <2>6
<1> QED BY <1>9, <1>10

-----------------------------------------------------------------------------
(***************************************************************************)
(* The newest event of those that were seen.                               *)
(***************************************************************************)

LEMMA LeastExists ==
  ASSUME NEW S \in SUBSET Nat, S # {}
  PROVE  \E x \in S : \A y \in S : x <= y
<1> DEFINE T == {1..x : x \in S}
<1>1. T \subseteq FiniteSubsetsOf(Nat) /\ T # {}
  <2>1. ASSUME NEW x \in S PROVE 1..x \subseteq Nat /\ IsFiniteSet(1..x)
    BY FS_Interval
  <2> QED BY <2>1 DEF FiniteSubsetsOf
<1>2. PICK t \in T : \A u \in T : <<u, t>> \notin StrictSubsetOrdering(Nat)
  BY <1>1, WFMin, FS_StrictSubsetOrderingWellFounded
<1>3. PICK x \in S : t = 1..x OBVIOUS
<1>4. ASSUME NEW y \in S, y < x PROVE FALSE
  <2>1. 1..y \subseteq 1..x /\ 1..y # 1..x
    <3>1. x \in 1..x /\ x \notin 1..y BY <1>4
    <3> QED BY <1>4, <3>1
  <2>2. 1..y \in SUBSET Nat /\ 1..x \in SUBSET Nat /\ 1..y \in T
    OBVIOUS
  <2>3. \A A, B \in SUBSET Nat : A \subseteq B /\ A # B => <<A, B>> \in StrictSubsetOrdering(Nat)
    BY DEF StrictSubsetOrdering
  <2> QED BY <1>2, <1>3, <2>1, <2>2, <2>3
<1> QED BY <1>4

LEMMA NewestIs ==
  ASSUME NEW n \in Nat, NEW S \in SUBSET (1..n)
  PROVE  /\ Newest(S) \in 0..n /\ Newest(S) \in S \cup {0}
         /\ \A x \in S : x <= Newest(S)
<1> DEFINE U == {k \in Nat : \A x \in S : x <= k}
<1>1. n \in U /\ U \subseteq Nat
  BY DEF U
<1>2. PICK m \in U : \A k \in U : m <= k
  BY <1>1, LeastExists
<1>3. m \in Nat /\ (\A x \in S : x <= m) /\ m <= n
  BY <1>1, <1>2
<1>4. m \in S \cup {0}
  <2>1. ASSUME m # 0, m \notin S PROVE FALSE
    <3>1. \A x \in S : x <= m - 1 BY <1>3, <2>1
    <3>2. m - 1 \in U BY <1>3, <2>1, <3>1
    <3> QED BY <1>2, <1>3, <3>2
  <2> QED BY <2>1
<1>5. \A x \in S \cup {0} : m >= x
  BY <1>3
<1> DEFINE V == S \cup {0}
<1>6. Newest(S) \in V /\ \A x \in V : Newest(S) >= x
  BY <1>4, <1>5 DEF Max, Newest
<1>7. V \subseteq 0..n OBVIOUS
<1> QED BY <1>6, <1>7

LEMMA NewestOfMore ==
  ASSUME NEW n \in Nat, NEW S \in SUBSET (1..n), NEW e \in 1..n, e > Newest(S)
  PROVE  Newest(S \cup {e}) = e
<1> DEFINE a == Newest(S)
           b == Newest(S \cup {e})
<1>1. a \in 0..n /\ \A x \in S : x <= a
  BY NewestIs
<1>2. S \cup {e} \in SUBSET (1..n)
  OBVIOUS
<1>3. b \in 0..n /\ b \in (S \cup {e}) \cup {0} /\ \A x \in S \cup {e} : x <= b
  BY <1>2, NewestIs
<1> HIDE DEF b
<1>4. e <= b /\ (b \in S \/ b = e \/ b = 0)
  BY <1>3
<1>5. e > a OBVIOUS
<1> HIDE DEF a
<1>6. b \notin S
  BY <1>1, <1>3, <1>4, <1>5
<1> QED BY <1>3, <1>4, <1>6 DEF b

(***************************************************************************)
(* How a line moves.                                                       *)
(***************************************************************************)

LEMMA LinesJoin ==
  ASSUME NEW a \in Lines, NEW b \in Lines
  PROVE  /\ a \o b \in Lines /\ Len(a \o b) = Len(a) + Len(b) /\ {Len(a), Len(b)} \subseteq Nat
         /\ \A i \in 1..Len(a) : (a \o b)[i] = a[i]
         /\ \A i \in 1..Len(b) : (a \o b)[Len(a) + i] = b[i]
  BY DEF Lines

LEMMA JoinIsAssociative ==
  ASSUME NEW a \in Lines, NEW b \in Lines, NEW d \in Lines
  PROVE  (a \o b) \o d = a \o (b \o d)
  BY ConcatAssociative, SMTT(40) DEF Lines

LEMMA JoinEmpty ==
  ASSUME NEW a \in Lines
  PROVE  <<>> \in Lines /\ a \o <<>> = a /\ <<>> \o a = a
  BY ConcatEmptySeq DEF Lines

LEMMA HeadIs ==
  ASSUME NEW a \in Lines, a # <<>>
  PROVE  /\ Head(a) \in Nat \cup {Resync} /\ Head(a) = a[1] /\ Tail(a) \in Lines
         /\ <<Head(a)>> \in Lines /\ <<Head(a)>> \o Tail(a) = a
         /\ Len(a) \in Nat /\ Len(a) > 0 /\ Len(Tail(a)) = Len(a) - 1
<1>1. /\ Head(a) \in Nat \cup {Resync} /\ Head(a) = a[1] /\ Tail(a) \in Lines
      /\ <<Head(a)>> \in Lines /\ Len(a) \in Nat /\ Len(a) > 0 /\ Len(Tail(a)) = Len(a) - 1
  BY DEF Lines
<1> DEFINE b == <<Head(a)>> \o Tail(a)
<1>2. b \in Lines /\ Len(b) = Len(a) /\ \A i \in 1..Len(a) : b[i] = a[i]
  BY DEF Lines
<1>3. b = a
  BY <1>2, SeqEqual DEF Lines
<1> QED BY <1>1, <1>3

LEMMA AppendIs ==
  ASSUME NEW a \in Lines, NEW e \in Nat \cup {Resync}
  PROVE  Append(a, e) \in Lines /\ <<e>> \in Lines /\ Append(a, e) = a \o <<e>>
<1>1. Append(a, e) \in Lines /\ <<e>> \in Lines BY DEF Lines
<1>2. a \in Seq(Nat \cup {Resync}) BY DEF Lines
<1>3. Append(a, e) = a \o <<e>> BY <1>2, AppendIsConcat
<1> QED BY <1>1, <1>3

\* What was sent is taken from the rest and put onto the connection.
LEMMA HeadMoves ==
  ASSUME NEW a \in Lines, NEW b \in Lines, NEW d \in Lines, b # <<>>
  PROVE  Append(a, Head(b)) \o (Tail(b) \o d) = a \o (b \o d)
<1> DEFINE h == <<Head(b)>>
           t == Tail(b)
<1>1. h \in Lines /\ t \in Lines /\ h \o t = b /\ Head(b) \in Nat \cup {Resync}
  BY HeadIs
<1>2. Append(a, Head(b)) = a \o h
  BY <1>1, AppendIs
<1> HIDE DEF h, t
<1> DEFINE y == t \o d
<1>3. y \in Lines
  BY <1>1, LinesJoin
<1>4. h \in Lines /\ t \in Lines
  BY <1>1
<1>5. (h \o t) \o d = h \o (t \o d)
  BY <1>4, JoinIsAssociative, ZenonT(60)
<1> HIDE DEF y
<1>6. (a \o h) \o y = a \o (h \o y)
  BY <1>3, <1>4, JoinIsAssociative, ZenonT(60)
<1> QED BY <1>1, <1>2, <1>5, <1>6 DEF t, y

LEMMA TailMoves ==
  ASSUME NEW a \in Lines, NEW b \in Lines, a # <<>>
  PROVE  Tail(a) \o b = Tail(a \o b) /\ Head(a) = (a \o b)[1] /\ Len(a \o b) > 0
<1> DEFINE u == Tail(a) \o b
           p == a \o b
           v == Tail(p)
<1>1. Tail(a) \in Lines /\ Len(a) \in Nat /\ Len(a) > 0 /\ Len(Tail(a)) = Len(a) - 1 /\ Head(a) = a[1]
  BY HeadIs
<1>2. \A i \in 1..(Len(a) - 1) : Tail(a)[i] = a[i + 1]
  BY <1>1 DEF Lines
<1>3. /\ p \in Lines /\ Len(p) = Len(a) + Len(b) /\ Len(b) \in Nat
      /\ \A i \in 1..Len(a) : p[i] = a[i]
      /\ \A i \in 1..Len(b) : p[Len(a) + i] = b[i]
  BY LinesJoin
<1>4. /\ u \in Lines /\ Len(u) = (Len(a) - 1) + Len(b)
      /\ \A i \in 1..(Len(a) - 1) : u[i] = a[i + 1]
      /\ \A i \in 1..Len(b) : u[(Len(a) - 1) + i] = b[i]
  <2>1. /\ u \in Lines /\ Len(u) = Len(Tail(a)) + Len(b)
        /\ \A i \in 1..Len(Tail(a)) : u[i] = Tail(a)[i]
        /\ \A i \in 1..Len(b) : u[Len(Tail(a)) + i] = b[i]
    BY <1>1, LinesJoin
  <2> HIDE DEF u
  <2> QED BY <1>1, <1>2, <2>1
<1> HIDE DEF u, p
<1>5. v \in Lines /\ Len(v) = Len(p) - 1 /\ \A i \in 1..(Len(p) - 1) : v[i] = p[i + 1]
  <2> HIDE DEF v
  <2>1. p \in Lines /\ Len(p) > 0
    BY <1>1, <1>3
  <2>2. /\ Tail(p) \in Lines /\ Len(Tail(p)) = Len(p) - 1
        /\ \A i \in 1..(Len(p) - 1) : Tail(p)[i] = p[i + 1]
    BY <2>1, TailOf
  <2> QED BY <2>2 DEF v
<1> HIDE DEF v
<1>6. ASSUME NEW i \in 1..Len(u) PROVE u[i] = v[i]
  <2>1. v[i] = p[i + 1] BY <1>1, <1>3, <1>4, <1>5
  <2>2. CASE i <= Len(a) - 1
    <3>1. i \in 1..(Len(a) - 1) /\ i + 1 \in 1..Len(a) BY <1>1, <1>4, <2>2
    <3> QED BY <1>3, <1>4, <2>1, <3>1
  <2>3. CASE i > Len(a) - 1
    <3> DEFINE j == i - (Len(a) - 1)
    <3>1. j \in 1..Len(b) /\ i = (Len(a) - 1) + j /\ i + 1 = Len(a) + j BY <1>1, <1>3, <1>4, <2>3
    <3> HIDE DEF j
    <3> QED BY <1>3, <1>4, <2>1, <3>1
  <2> QED BY <1>1, <1>4, <2>2, <2>3
<1>7. u = v
  <2>1. Len(u) = Len(v) BY <1>1, <1>3, <1>4, <1>5
  <2> QED BY <1>4, <1>5, <1>6, <2>1, SeqEqual DEF Lines
<1>8. Len(p) > 0 /\ Head(a) = p[1]
  BY <1>1, <1>3
<1> QED BY <1>7, <1>8 DEF u, v, p

\* What is published goes to the end of the live queue, and so of the line.
LEMMA EndGrows ==
  ASSUME NEW a \in Lines, NEW b \in Lines, NEW d \in Lines, NEW e \in Nat \cup {Resync}
  PROVE  a \o (b \o Append(d, e)) = Append(a \o (b \o d), e)
<1> DEFINE x == <<e>>
<1>1. Append(d, e) = d \o x /\ x \in Lines
  BY AppendIs
<1> HIDE DEF x
<1>2. b \o d \in Lines /\ d \o x \in Lines /\ a \o (b \o d) \in Lines
  BY <1>1, LinesJoin
<1> DEFINE y == b \o d
           p == a \o y
<1>3. y \o x = b \o (d \o x)
  <2>1. x \in Lines BY <1>1
  <2> QED BY <2>1, JoinIsAssociative, ZenonT(60)
<1>4. p \o x = a \o (y \o x)
  <2>1. x \in Lines /\ y \in Lines BY <1>1, <1>2
  <2> HIDE DEF y
  <2> QED BY <2>1, JoinIsAssociative, ZenonT(60)
<1>5. p \in Lines BY <1>2
<1> HIDE DEF p, y
<1>6. Append(p, e) = p \o x
  BY <1>5, AppendIs DEF x
<1> QED BY <1>1, <1>3, <1>4, <1>6 DEF p, y

-----------------------------------------------------------------------------
(***************************************************************************)
(* What each step of the system does to a client, whatever the others do.  *)
(***************************************************************************)

\* The marker is no event, and neither it nor an event is None.
LEMMA MarkersAreNoEvents == \A x \in Nat : x # Resync /\ x # None
  BY BrokerAssumption

\* An empty queue is no marker.
LEMMA NothingIsQueued == ASSUME NEW q, q = <<>> PROVE 1..Len(q) = {}
<1>1. Len(q) = 0
  OBVIOUS
<1> QED BY <1>1

LEMMA SoundUnserved ==
  ASSUME NEW wi \in Lines, NEW re \in Lines, NEW li \in Lines, NEW n \in Nat, NEW s, NEW cn, NEW id,
         Sound(cn, wi, re, li, FALSE, id, s, n)
  PROVE  Sound(cn, wi, re, li, FALSE, id, s, n + 1)
<1> DEFINE p == wi \o (re \o li)
           w == id \in {None, Resync}
           k == Newest(s)
<1>1. p \in Lines
  <2>1. re \o li \in Lines BY LinesJoin
  <2> QED BY <2>1, LinesJoin
<1>2. s \subseteq 1..n /\ s \subseteq 1..(n + 1)
  BY DEF Sound
<1>3. k \in Nat
  BY <1>2, NewestIs
<1>4. Good(p, n, s, k, w, FALSE)
  BY DEF Sound
<1> HIDE DEF p, w, k
<1>5. Good(p, n + 1, s, k, w, FALSE)
  BY <1>1, <1>3, <1>4, LineUnserved
<1> QED BY <1>2, <1>5 DEF Sound, p, w, k

LEMMA SoundGrows ==
  ASSUME NEW wi \in Lines, NEW re \in Lines, NEW li \in Lines, NEW n \in Nat, NEW s, NEW cn, NEW id,
         Sound(cn, wi, re, li, TRUE, id, s, n)
  PROVE  Sound(cn, wi, re, Append(li, n + 1), TRUE, id, s, n + 1)
<1> DEFINE p == wi \o (re \o li)
           w == id \in {None, Resync}
           k == Newest(s)
           e == n + 1
           l == Append(li, e)
<1>1. p \in Lines
  <2>1. re \o li \in Lines BY LinesJoin
  <2> QED BY <2>1, LinesJoin
<1>2. s \subseteq 1..n /\ s \subseteq 1..(n + 1)
  BY DEF Sound
<1>3. k \in 0..n
  BY <1>2, NewestIs
<1>4. Good(p, n, s, k, w, TRUE)
  BY DEF Sound
<1>5. wi \o (re \o l) = Append(p, e)
  <2>1. e \in Nat \cup {Resync} OBVIOUS
  <2> HIDE DEF e
  <2> QED BY <2>1, EndGrows, ZenonT(60)
<1>6. \A i \in 1..Len(l) : l[i] # Resync
  <2>1. Len(li) \in Nat /\ Len(l) = Len(li) + 1 /\ l[Len(li) + 1] = e /\ \A i \in 1..Len(li) : l[i] = li[i]
    BY DEF Lines
  <2>2. \A i \in 1..Len(li) : li[i] # Resync BY DEF Sound
  <2>3. e # Resync BY MarkersAreNoEvents
  <2> HIDE DEF l, e
  <2>4. \A i \in 1..(Len(li) + 1) : i \in 1..Len(li) \/ i = Len(li) + 1 BY <2>1
  <2> QED BY <2>1, <2>2, <2>3, <2>4
<1> HIDE DEF p, w, k
<1>7. Good(Append(p, n + 1), n + 1, s, k, w, TRUE)
  BY <1>1, <1>3, <1>4, LineGrows
<1>8. Good(wi \o (re \o l), n + 1, s, k, w, TRUE)
  BY <1>5, <1>7
<1> HIDE DEF l
<1>9. Sound(cn, wi, re, l, TRUE, id, s, n + 1)
  BY <1>2, <1>6, <1>8 DEF Sound, w, k
<1> QED BY <1>9 DEF l

LEMMA SoundOverflows ==
  ASSUME NEW wi \in Lines, NEW re \in Lines, NEW li \in Lines, NEW n \in Nat, NEW s, NEW cn, NEW id,
         Sound(cn, wi, re, li, TRUE, id, s, n)
  PROVE  Sound(cn, wi, re, <<Resync>>, FALSE, id, s, n + 1)
<1> DEFINE a == wi \o re
           w == id \in {None, Resync}
           k == Newest(s)
           m == <<Resync>>
<1>1. a \in Lines /\ <<>> \in Lines /\ re \o <<>> = re
  BY LinesJoin, JoinEmpty
<1>2. s \subseteq 1..n /\ s \subseteq 1..(n + 1)
  BY DEF Sound
<1>3. k \in 0..n
  BY <1>2, NewestIs
<1>4. Good(a \o li, n, s, k, w, TRUE)
  <2>1. a \o li = wi \o (re \o li) BY JoinIsAssociative
  <2>2. Good(wi \o (re \o li), n, s, k, w, TRUE) BY DEF Sound
  <2> HIDE DEF a, w, k
  <2> QED BY <2>1, <2>2
<1>5. m \in Lines /\ Len(m) = 1 /\ a \o m = Append(a, Resync)
  <2>1. Resync \in Nat \cup {Resync} OBVIOUS
  <2>2. m \in Lines /\ Len(m) = 1 BY DEF Lines
  <2>3. Append(a, Resync) = a \o m
    <3> HIDE DEF a
    <3> QED BY <1>1, <2>1, AppendIs
  <2> QED BY <2>2, <2>3
<1>6. a \o m = wi \o (re \o m)
  <2> HIDE DEF m
  <2> QED BY <1>5, JoinIsAssociative
<1>7. Good(Append(a, Resync), n + 1, s, k, w, FALSE)
  <2> HIDE DEF a, w, k
  <2> QED BY <1>1, <1>3, <1>4, LineOverflows
<1> HIDE DEF a, m
<1>8. Good(wi \o (re \o m), n + 1, s, k, w, FALSE)
  BY <1>5, <1>6, <1>7
<1>9. cn = "open"
  BY DEF Sound
<1>10. Sound(cn, wi, re, m, FALSE, id, s, n + 1)
  BY <1>2, <1>5, <1>8, <1>9 DEF Sound
<1> QED BY <1>10 DEF m

LEMMA SoundConnects ==
  ASSUME history \in Seq(Nat), published \in Nat, HistoryIsEnd,
         NEW wi \in Lines, NEW re \in Lines, NEW li \in Lines, NEW s, NEW id, id # 0, NEW reg,
         Sound("closed", wi, re, li, reg, id, s, published)
  PROVE  /\ Sound("open", wi, SelectReplay(id), <<>>, TRUE, id, s, published)
         /\ SelectReplay(id) \in Lines /\ Len(SelectReplay(id)) <= ReplayLimit + 1
<1> DEFINE w == id \in {None, Resync}
           k == Newest(s)
           b == SelectReplay(id)
<1>1. /\ wi = <<>> /\ s \in SUBSET (1..published) /\ (w \/ id = k)
      /\ (id = None => s = {}) /\ \A x \in 1..k : Settled(x, published, s)
  BY DEF Sound, Good, Skips
<1>2. k \in 0..published /\ k \in s \cup {0}
  BY <1>1, NewestIs
<1>3. w \in BOOLEAN /\ (w => id \in {None, Resync})
  OBVIOUS
<1> HIDE DEF k
<1>4. id = None => k = 0
  BY <1>1, <1>2
<1>5. ~w => id = k /\ k > 0
  BY <1>1, <1>2
<1> HIDE DEF w, b
<1>6. Good(b, published, s, k, w, TRUE) /\ b \in Lines /\ Len(b) <= ReplayLimit + 1
  BY <1>1, <1>2, <1>3, <1>4, <1>5, LineBegins DEF b
<1>7. wi \o (b \o <<>>) = b
  BY <1>1, <1>6, JoinEmpty
<1>8. Good(wi \o (b \o <<>>), published, s, k, w, TRUE)
  BY <1>6, <1>7
<1>9. \A i \in 1..Len(<<>>) : FALSE
  BY NothingIsQueued
<1>10. Sound("open", wi, b, <<>>, TRUE, id, s, published)
  BY <1>1, <1>8, <1>9 DEF Sound, w, k
<1> QED BY <1>6, <1>10 DEF b

LEMMA SoundSendsReplay ==
  ASSUME NEW wi \in Lines, NEW re \in Lines, NEW li \in Lines, NEW n \in Nat, NEW s, NEW id, NEW reg,
         re # <<>>, Sound("open", wi, re, li, reg, id, s, n)
  PROVE  Sound("open", Append(wi, Head(re)), Tail(re), li, reg, id, s, n)
<1>1. Append(wi, Head(re)) \o (Tail(re) \o li) = wi \o (re \o li)
  BY HeadMoves
<1> QED BY <1>1 DEF Sound

\* A marker ends what the endpoint serves, and nothing is behind it.
LEMMA SoundSendsLive ==
  ASSUME NEW wi \in Lines, NEW li \in Lines, NEW n \in Nat, NEW s, NEW id, NEW reg,
         li # <<>>, Sound("open", wi, <<>>, li, reg, id, s, n)
  PROVE  /\ Head(li) = Resync => Sound("ended", Append(wi, Head(li)), <<>>, Tail(li), FALSE, id, s, n)
         /\ Head(li) # Resync => Sound("open", Append(wi, Head(li)), <<>>, Tail(li), reg, id, s, n)
<1> DEFINE a == Append(wi, Head(li))
           t == Tail(li)
           w == id \in {None, Resync}
           k == Newest(s)
<1>1. /\ t \in Lines /\ Head(li) = li[1] /\ Len(li) \in Nat /\ Len(li) > 0 /\ Len(t) = Len(li) - 1
      /\ \A i \in 1..Len(t) : t[i] = li[i + 1] /\ i + 1 \in 1..Len(li)
  BY DEF Lines
<1>2. a \o t = wi \o (<<>> \o li) /\ <<>> \o t = t
  <2>1. <<>> \in Lines BY JoinEmpty
  <2>2. a \o (t \o <<>>) = wi \o (li \o <<>>) BY <2>1, HeadMoves
  <2>3. t \o <<>> = t /\ <<>> \o t = t BY <1>1, JoinEmpty
  <2>4. li \o <<>> = li /\ <<>> \o li = li BY JoinEmpty
  <2> HIDE DEF a, t
  <2> QED BY <2>2, <2>3, <2>4
<1>3. /\ \A i \in 1..Len(li) : li[i] = Resync => Len(li) = 1 /\ ~reg
      /\ Good(wi \o (<<>> \o li), n, s, k, w, reg)
      /\ s \subseteq 1..n /\ (w \/ id = k) /\ (id = None => s = {})
  BY DEF Sound
<1> HIDE DEF a, t, w, k
<1>4. Good(a \o (<<>> \o t), n, s, k, w, reg)
  BY <1>2, <1>3
<1>5. CASE Head(li) = Resync
  <2>1. 1 \in 1..Len(li) /\ li[1] = Resync BY <1>1, <1>5
  <2>2. Len(li) = 1 /\ ~reg BY <1>3, <2>1
  <2>3. t = <<>>
    <3>1. Len(t) = 0 BY <1>1, <2>2
    <3> QED BY <1>1, <3>1 DEF Lines
  <2>4. Good(a \o (<<>> \o t), n, s, k, w, FALSE)
    BY <1>4, <2>2 DEF Good, Markers, Leads, Skips
  <2>5. \A i \in 1..Len(t) : FALSE
    BY <2>3, NothingIsQueued
  <2>6. Sound("ended", a, <<>>, t, FALSE, id, s, n)
    BY <1>3, <2>3, <2>4, <2>5 DEF Sound, w, k
  <2> QED BY <1>5, <2>6 DEF a, t
<1>6. CASE Head(li) # Resync
  <2>1. \A i \in 1..Len(t) : t[i] # Resync
    <3>1. \A i \in 1..Len(li) : li[i] # Resync
      <4>1. Len(li) = 1 => \A i \in 1..Len(li) : li[i] # Resync BY <1>1, <1>6
      <4> QED BY <1>3, <4>1
    <3> QED BY <1>1, <3>1
  <2>2. Sound("open", a, <<>>, t, reg, id, s, n)
    BY <1>3, <1>4, <2>1 DEF Sound, w, k
  <2> QED BY <1>6, <2>2 DEF a, t
<1> QED BY <1>5, <1>6

LEMMA SoundFinishes ==
  ASSUME NEW wi, NEW re, NEW li, NEW n, NEW s, NEW id, NEW reg,
         wi = <<>>, Sound("ended", wi, re, li, reg, id, s, n)
  PROVE  Sound("closed", wi, re, li, reg, id, s, n)
  BY DEF Sound

\* The line is lost; what the client was made to skip stays skipped.
LEMMA SoundLoses ==
  ASSUME NEW cn, NEW wi, NEW re, NEW li, NEW n, NEW s, NEW id, NEW reg,
         Sound(cn, wi, re, li, reg, id, s, n)
  PROVE  Sound("closed", <<>>, <<>>, <<>>, FALSE, id, s, n)
<1> DEFINE p == <<>> \o (<<>> \o <<>>)
           w == id \in {None, Resync}
           k == Newest(s)
<1>1. Len(p) = 0 /\ Len(<<>>) = 0
  OBVIOUS
<1>2. \A x \in 1..k : Settled(x, n, s)
  BY DEF Sound, Good, Skips
<1> HIDE DEF p, k, w
<1>3. Good(p, n, s, k, w, FALSE)
  BY <1>1, <1>2 DEF Good, Ordered, Markers, TakesUp, Leads, Skips
<1>4. s \subseteq 1..n /\ (w \/ id = k) /\ (id = None => s = {})
  BY DEF Sound, w, k
<1>5. \A i \in 1..Len(<<>>) : FALSE
  BY NothingIsQueued
<1> QED BY <1>3, <1>4, <1>5 DEF Sound, p, w, k

\* The next line, read as the client reads it.
LEMMA SoundReads ==
  ASSUME NEW cn, NEW wi \in Lines, NEW re \in Lines, NEW li \in Lines, NEW n \in Nat, NEW s, NEW id,
         NEW reg, cn # "closed", wi # <<>>, Sound(cn, wi, re, li, reg, id, s, n)
  PROVE  /\ Head(wi) \in s => Sound(cn, Tail(wi), re, li, reg, id, s, n)
         /\ Head(wi) = Resync => Sound(cn, Tail(wi), re, li, reg, Resync, s, n)
         /\ Head(wi) # Resync /\ Head(wi) \notin s =>
              /\ Head(wi) \in (Newest(s) + 1)..n
              /\ Head(wi) = Newest(s) + 1 \/ id \in {None, Resync}
              /\ Newest(s \cup {Head(wi)}) = Head(wi)
              /\ Sound(cn, Tail(wi), re, li, reg, Head(wi), s \cup {Head(wi)}, n)
<1> DEFINE d == re \o li
           p == wi \o d
           w == id \in {None, Resync}
           k == Newest(s)
           e == Head(wi)
           t == Tail(wi)
<1>1. d \in Lines
  BY LinesJoin
<1>2. t \o d = Tail(p) /\ e = p[1] /\ Len(p) > 0 /\ p \in Lines
  <2> HIDE DEF d
  <2>1. t \o d = Tail(p) /\ e = p[1] /\ Len(p) > 0 BY <1>1, TailMoves
  <2>2. p \in Lines BY <1>1, LinesJoin
  <2> QED BY <2>1, <2>2
<1>3. s \in SUBSET (1..n) /\ (w \/ id = k) /\ (id = None => s = {}) /\ Good(p, n, s, k, w, reg)
  BY DEF Sound
<1>4. k \in 0..n /\ \A x \in s : x <= k
  BY <1>3, NewestIs
<1>5. /\ cn # "open" => re = <<>> /\ li = <<>> /\ ~reg
      /\ \A i \in 1..Len(li) : li[i] = Resync => Len(li) = 1 /\ ~reg
  BY DEF Sound
<1> HIDE DEF d, p, w, k, e, t
<1>6. ASSUME e \in s PROVE Sound(cn, t, re, li, reg, id, s, n)
  <2>1. p[1] \in s BY <1>2, <1>6
  <2>2. Good(Tail(p), n, s, k, w, reg) BY <1>2, <1>3, <1>4, <2>1, LineReadAgain
  <2>3. Good(t \o d, n, s, k, w, reg) BY <1>2, <2>2
  <2> QED BY <1>3, <1>5, <2>3 DEF Sound, w, k, d
<1>7. ASSUME e = Resync PROVE Sound(cn, t, re, li, reg, Resync, s, n)
  <2>1. p[1] = Resync BY <1>2, <1>7
  <2>2. Good(Tail(p), n, s, k, TRUE, reg) BY <1>2, <1>3, <1>4, <2>1, LineWarns
  <2>3. Good(t \o d, n, s, k, Resync \in {None, Resync}, reg) BY <1>2, <2>2
  <2>4. Resync # None BY BrokerAssumption
  <2> QED BY <1>3, <1>5, <2>3, <2>4 DEF Sound, k, d
<1>8. ASSUME e # Resync, e \notin s
      PROVE  /\ e \in (k + 1)..n /\ (e = k + 1 \/ w) /\ Newest(s \cup {e}) = e
             /\ Sound(cn, t, re, li, reg, e, s \cup {e}, n)
  <2>1. p[1] # Resync /\ p[1] \notin s BY <1>2, <1>8
  <2>2. /\ p[1] \in (k + 1)..n /\ (p[1] = k + 1 \/ w)
        /\ Good(Tail(p), n, s \cup {p[1]}, p[1], FALSE, reg)
    BY <1>2, <1>3, <1>4, <2>1, LineReads
  <2>3. /\ e \in (k + 1)..n /\ (e = k + 1 \/ w)
        /\ Good(t \o d, n, s \cup {e}, e, FALSE, reg)
    BY <1>2, <2>2
  <2>4. e \in 1..n /\ e > k /\ e \in Nat BY <1>4, <2>3
  <2>5. Newest(s \cup {e}) = e BY <1>3, <2>4, NewestOfMore DEF k
  <2>6. e \notin {None, Resync} BY <2>4, MarkersAreNoEvents
  <2>7. (e \in {None, Resync}) = FALSE BY <2>6
  <2>8. s \cup {e} \subseteq 1..n BY <1>3, <2>4
  <2>9. Sound(cn, t, re, li, reg, e, s \cup {e}, n)
    BY <1>5, <2>3, <2>5, <2>6, <2>7, <2>8 DEF Sound, d
  <2> QED BY <2>3, <2>5, <2>9
<1> QED BY <1>6, <1>7, <1>8 DEF e, t, k, w

-----------------------------------------------------------------------------
(***************************************************************************)
(* Every step of the broker keeps the invariant.                           *)
(***************************************************************************)

LEMMA MoreEntries ==
  ASSUME NEW A, NEW B, A \subseteq B
  PROVE  \A q \in Seq(A) : q \in Seq(B)
  OBVIOUS

Entries == 1..MaxEvents \cup {Resync}

LEMMA EntriesAreLines == \A q \in Seq(Entries) : q \in Lines
<1>1. Entries \subseteq Nat \cup {Resync}
  BY BrokerAssumption DEF Entries
<1>2. \A q \in Seq(Entries) : q \in Seq(Nat \cup {Resync})
  BY <1>1, MoreEntries
<1> QED BY <1>2 DEF Lines

LEMMA LineOfEntries ==
  ASSUME NEW p \in Lines, NEW n \in 0..MaxEvents, Ordered(p, n)
  PROVE  p \in Seq(Entries)
<1>1. \A i \in 1..Len(p) : p[i] \in Entries
  BY BrokerAssumption DEF Ordered, Entries
<1>2. Len(p) \in Nat /\ p = [i \in 1..Len(p) |-> p[i]]
  BY DEF Lines
<1>3. p \in [1..Len(p) -> Entries]
  BY <1>1, <1>2
<1> QED BY <1>2, <1>3

LEMMA ServerTyped ==
  ASSUME BrokerTypeOK
  PROVE  published \in Nat /\ published \in 0..MaxEvents /\ history \in Seq(Nat)
<1>1. 1..MaxEvents \subseteq Nat /\ \A n \in 0..MaxEvents : n \in Nat
  BY BrokerAssumption
<1>2. \A q \in Seq(1..MaxEvents) : q \in Seq(Nat)
  BY <1>1, MoreEntries
<1> QED BY <1>1, <1>2 DEF BrokerTypeOK

LEMMA ClientTyped ==
  ASSUME BrokerTypeOK, NEW c \in Clients
  PROVE  /\ wire[c] \in Seq(Entries) /\ replay[c] \in Seq(Entries) /\ live[c] \in Seq(Entries)
         /\ wire[c] \in Lines /\ replay[c] \in Lines /\ live[c] \in Lines
         /\ registered[c] \in BOOLEAN /\ lastId[c] # 0
<1>1. wire[c] \in Seq(Entries) /\ replay[c] \in Seq(Entries) /\ live[c] \in Seq(Entries)
  <2>1. {replay, live, wire} \subseteq [Clients -> Seq(Entries)] BY DEF BrokerTypeOK, Entries
  <2> QED BY <2>1
<1>2. lastId[c] # 0
  <2>1. lastId[c] \in 1..MaxEvents \cup {None, Resync} BY DEF BrokerTypeOK
  <2>2. 0 \in Nat BY BrokerAssumption
  <2>3. 0 # None /\ 0 # Resync BY <2>2, MarkersAreNoEvents
  <2> QED BY <2>1, <2>3, BrokerAssumption
<1>3. registered[c] \in BOOLEAN
  BY DEF BrokerTypeOK
<1> QED BY <1>1, <1>2, <1>3, EntriesAreLines

LEMMA IInvInit == Init => IInv
<1> SUFFICES ASSUME Init PROVE IInv
  OBVIOUS
<1>1. BrokerTypeOK
  <2>1. <<>> \in Seq(1..MaxEvents) /\ <<>> \in Seq(1..MaxEvents \cup {Resync}) /\ Len(<<>>) = 0
    OBVIOUS
  <2>2. {replay, live, wire} \subseteq [Clients -> Seq(1..MaxEvents \cup {Resync})]
    BY <2>1 DEF Init
  <2>3. \A c \in Clients : replay[c] = <<>> /\ live[c] = <<>> /\ wire[c] = <<>>
    BY DEF Init
  <2> QED BY <2>1, <2>2, <2>3, BrokerAssumption DEF Init, BrokerTypeOK
<1>2. HistoryIsEnd
  <2>1. Len(history) = 0 BY DEF Init
  <2> QED BY <2>1, BrokerAssumption DEF Init, HistoryIsEnd
<1>3. ASSUME NEW c \in Clients PROVE Client(c)
  <2> DEFINE p == <<>> \o (<<>> \o <<>>)
             w == None \in {None, Resync}
             k == Newest({})
  <2>1. k = 0
    <3>1. {} \in SUBSET (1..0) /\ 0 \in Nat OBVIOUS
    <3>2. k \in 0..0 BY <3>1, NewestIs
    <3> HIDE DEF k
    <3> QED BY <3>2
  <2>2. Len(p) = 0 OBVIOUS
  <2>3. \A i \in 1..Len(<<>>) : FALSE BY NothingIsQueued
  <2> HIDE DEF p, w, k
  <2>4. Good(p, 0, {}, k, w, FALSE)
    BY <2>1, <2>2 DEF Good, Ordered, Markers, TakesUp, Leads, Skips
  <2>5. Sound("closed", <<>>, <<>>, <<>>, FALSE, None, {}, 0)
    BY <2>3, <2>4 DEF Sound, p, w, k
  <2> QED BY <2>5 DEF Init, Client
<1> QED BY <1>1, <1>2, <1>3 DEF IInv

LEMMA EntriesFrom ==
  ASSUME NEW S, NEW q \in Seq(Nat), \A i \in 1..Len(q) : q[i] \in S
  PROVE  q \in Seq(S)
<1>1. Len(q) \in Nat /\ q = [i \in 1..Len(q) |-> q[i]]
  OBVIOUS
<1>2. q \in [1..Len(q) -> S]
  BY <1>1
<1> QED BY <1>1, <1>2

\* The history with one event more.
LEMMA HistoryGrows ==
  ASSUME BrokerTypeOK, HistoryIsEnd, NEW e, e = published + 1, e <= MaxEvents, NEW q,
         q = Tails(Append(history, e), ReplaySize)
  PROVE  /\ q \in Seq(1..MaxEvents)
         /\ Len(q) = IF e < ReplaySize THEN e ELSE ReplaySize
         /\ \A i \in 1..Len(q) : q[i] = e - Len(q) + i
<1> DEFINE h == Len(history)
           n == published
           u == Append(history, e)
           l == Len(q)
<1>1. n \in Nat /\ history \in Seq(Nat) /\ h \in Nat /\ e \in Nat /\ ReplaySize \in Nat \ {0} /\ MaxEvents \in Nat
  BY ServerTyped, BrokerAssumption
<1>2. h = (IF n < ReplaySize THEN n ELSE ReplaySize) /\ \A i \in 1..h : history[i] = n - h + i
  BY DEF HistoryIsEnd
<1>3. u \in Seq(Nat) /\ Len(u) = h + 1 /\ u[h + 1] = e /\ \A i \in 1..h : u[i] = history[i]
  BY <1>1
<1>4. /\ q \in Seq(Nat) /\ l = (IF Len(u) > ReplaySize THEN ReplaySize ELSE Len(u))
      /\ \A i \in 1..l : q[i] = u[Len(u) - l + i]
  <2> HIDE DEF u
  <2>1. u \in Seq(Nat) /\ ReplaySize \in Nat BY <1>1, <1>3
  <2> DEFINE t == Tails(u, ReplaySize)
  <2>2. /\ t \in Seq(Nat) /\ Len(t) = IF Len(u) > ReplaySize THEN ReplaySize ELSE Len(u)
        /\ \A i \in 1..Len(t) : t[i] = u[Len(u) - Len(t) + i]
    BY <2>1, TailsIs
  <2>3. q = t BY DEF u
  <2> HIDE DEF t
  <2> QED BY <2>2, <2>3
<1> HIDE DEF h, u, l
<1>5. l = (IF e < ReplaySize THEN e ELSE ReplaySize) /\ l \in 1..(h + 1)
  <2>1. CASE n < ReplaySize
    <3>1. h = n /\ Len(u) = e /\ e <= ReplaySize BY <1>1, <1>2, <1>3, <2>1
    <3> QED BY <1>1, <1>3, <1>4, <3>1
  <2>2. CASE ~(n < ReplaySize)
    <3>1. h = ReplaySize /\ Len(u) = ReplaySize + 1 /\ e > ReplaySize BY <1>1, <1>2, <1>3, <2>2
    <3> QED BY <1>1, <1>4, <3>1
  <2> QED BY <2>1, <2>2
<1>6. \A i \in 1..(h + 1) : u[i] = n - h + i
  <2>1. \A i \in 1..(h + 1) : i \in 1..h \/ i = h + 1 BY <1>1
  <2>2. u[h + 1] = n - h + (h + 1) BY <1>1, <1>3
  <2> QED BY <1>2, <1>3, <2>1, <2>2
<1>7. \A i \in 1..l : q[i] = e - l + i
  <2>1. \A i \in 1..l : h + 1 - l + i \in 1..(h + 1) BY <1>1, <1>5
  <2>2. ASSUME NEW i \in 1..l PROVE q[i] = e - l + i
    <3> DEFINE j == h + 1 - l + i
    <3>1. q[i] = u[j]
      <4>1. q[i] = u[Len(u) - l + i] BY <1>4
      <4>2. Len(u) = h + 1 BY <1>3
      <4>3. Len(u) - l + i = j BY <1>1, <1>5, <4>2
      <4> HIDE DEF j
      <4> QED BY <4>1, <4>3
    <3>2. u[j] = n - h + j BY <1>6, <2>1
    <3>3. n - h + j = e - l + i BY <1>1, <1>5
    <3> QED BY <3>1, <3>2, <3>3
  <2> QED BY <2>2
<1>8. q \in Seq(1..MaxEvents)
  <2>1. \A i \in 1..l : e - l + i \in 1..MaxEvents BY <1>1, <1>5
  <2>2. \A i \in 1..l : q[i] \in 1..MaxEvents BY <1>7, <2>1
  <2>3. q \in Seq(Nat) /\ \A i \in 1..Len(q) : q[i] \in 1..MaxEvents BY <1>4, <2>2 DEF l
  <2> QED BY <2>3, EntriesFrom
<1> QED BY <1>5, <1>7, <1>8 DEF l

LEMMA PublishKeeps == ASSUME IInv, Publish PROVE IInv'
<1> DEFINE e == published + 1
           Full(c) == registered[c] /\ Len(live[c]) >= QueueSize
<1>1. BrokerTypeOK /\ HistoryIsEnd /\ \A c \in Clients : Client(c)
  BY DEF IInv
<1>2. published \in Nat /\ e \in 0..MaxEvents /\ published' = e /\ e \in Nat \cup {Resync} /\ e \in Entries
  BY <1>1, ServerTyped, BrokerAssumption DEF Publish, Entries
<1>3. history' = Tails(Append(history, e), ReplaySize)
  BY DEF Publish
<1>4. HistoryIsEnd' /\ history' \in Seq(1..MaxEvents) /\ Len(history') <= ReplaySize
  <2>1. /\ history' \in Seq(1..MaxEvents)
        /\ Len(history') = IF e < ReplaySize THEN e ELSE ReplaySize
        /\ \A i \in 1..Len(history') : history'[i] = e - Len(history') + i
    <3> DEFINE q == Tails(Append(history, e), ReplaySize)
    <3>1. e = published + 1 /\ e <= MaxEvents BY <1>2, BrokerAssumption
    <3> HIDE DEF e
    <3>2. /\ q \in Seq(1..MaxEvents)
          /\ Len(q) = IF e < ReplaySize THEN e ELSE ReplaySize
          /\ \A i \in 1..Len(q) : q[i] = e - Len(q) + i
      BY <1>1, <3>1, HistoryGrows
    <3>3. history' = q BY <1>3
    <3> HIDE DEF q
    <3> QED BY <3>2, <3>3
  <2> QED BY <1>2, <2>1, BrokerAssumption DEF HistoryIsEnd
<1>5. conn' = conn /\ replay' = replay /\ wire' = wire /\ lastId' = lastId /\ seen' = seen /\ losses' = losses
  BY DEF Publish, clientVars
<1>6. /\ live' = [c \in Clients |-> IF Full(c) THEN <<Resync>>
                                    ELSE IF registered[c] THEN Append(live[c], e) ELSE live[c]]
      /\ registered' = [c \in Clients |-> registered[c] /\ ~Full(c)]
  BY DEF Publish, Overflow
<1>7. ASSUME NEW c \in Clients
      PROVE  /\ live'[c] \in Seq(Entries) /\ Len(live'[c]) <= QueueSize /\ registered'[c] \in BOOLEAN
             /\ Client(c)'
  <2>1. /\ wire[c] \in Lines /\ replay[c] \in Lines /\ live[c] \in Lines /\ live[c] \in Seq(Entries)
        /\ Len(live[c]) <= QueueSize /\ registered[c] \in BOOLEAN
    BY <1>1, ClientTyped DEF BrokerTypeOK
  <2>2. Sound(conn[c], wire[c], replay[c], live[c], registered[c], lastId[c], seen[c], published)
    BY <1>1 DEF Client
  <2>3. conn'[c] = conn[c] /\ wire'[c] = wire[c] /\ replay'[c] = replay[c] /\ lastId'[c] = lastId[c] /\ seen'[c] = seen[c]
    BY <1>5
  <2>4. CASE registered[c] = FALSE
    <3>1. live'[c] = live[c] /\ registered'[c] = FALSE BY <1>6, <2>4
    <3>2. Sound(conn[c], wire[c], replay[c], live[c], FALSE, lastId[c], seen[c], published)
      BY <2>2, <2>4
    <3>3. Sound(conn[c], wire[c], replay[c], live[c], FALSE, lastId[c], seen[c], published + 1)
      BY <1>2, <2>1, <3>2, SoundUnserved
    <3> QED BY <1>2, <2>1, <2>3, <3>1, <3>3 DEF Client
  <2>5. CASE registered[c] = TRUE /\ ~Full(c)
    <3>1. live'[c] = Append(live[c], e) /\ registered'[c] = TRUE BY <1>6, <2>5
    <3>2. Sound(conn[c], wire[c], replay[c], live[c], TRUE, lastId[c], seen[c], published)
      BY <2>2, <2>5
    <3>3. Sound(conn[c], wire[c], replay[c], Append(live[c], e), TRUE, lastId[c], seen[c], e)
      BY <1>2, <2>1, <3>2, SoundGrows
    <3>4. Append(live[c], e) \in Seq(Entries) /\ Len(Append(live[c], e)) <= QueueSize
      <4>1. Len(live[c]) < QueueSize BY <2>1, <2>5, BrokerAssumption
      <4> HIDE DEF e
      <4> QED BY <1>2, <2>1, <4>1, BrokerAssumption
    <3> QED BY <1>2, <2>3, <3>1, <3>3, <3>4 DEF Client
  <2>6. CASE registered[c] = TRUE /\ Full(c)
    <3>1. live'[c] = <<Resync>> /\ registered'[c] = FALSE BY <1>6, <2>6
    <3>2. Sound(conn[c], wire[c], replay[c], live[c], TRUE, lastId[c], seen[c], published)
      BY <2>2, <2>6
    <3>3. Sound(conn[c], wire[c], replay[c], <<Resync>>, FALSE, lastId[c], seen[c], published + 1)
      BY <1>2, <2>1, <3>2, SoundOverflows
    <3>4. <<Resync>> \in Seq(Entries) /\ Len(<<Resync>>) <= QueueSize
      <4>1. Resync \in Entries BY DEF Entries
      <4> QED BY <4>1, BrokerAssumption
    <3> QED BY <1>2, <2>3, <3>1, <3>3, <3>4 DEF Client
  <2> QED BY <2>1, <2>4, <2>5, <2>6
<1>8. BrokerTypeOK'
  <2>1. live' \in [Clients -> Seq(Entries)]
    <3>1. \A c \in Clients : live'[c] \in Seq(Entries) BY <1>7
    <3>2. DOMAIN live' = Clients /\ live' = [c \in Clients |-> live'[c]] BY <1>6
    <3> QED BY <3>1, <3>2
  <2>2. registered' \in [Clients -> BOOLEAN]
    <3>1. \A c \in Clients : registered'[c] \in BOOLEAN BY <1>7
    <3>2. registered' = [c \in Clients |-> registered'[c]] BY <1>6
    <3> QED BY <3>1, <3>2
  <2>3. {replay', live', wire'} \subseteq [Clients -> Seq(1..MaxEvents \cup {Resync})]
    BY <1>1, <1>5, <2>1 DEF BrokerTypeOK, Entries
  <2>4. \A c \in Clients : Len(live'[c]) <= QueueSize
    BY <1>7
  <2> QED BY <1>1, <1>2, <1>4, <1>5, <2>2, <2>3, <2>4 DEF BrokerTypeOK
<1> QED BY <1>4, <1>7, <1>8 DEF IInv

LEMMA ConnectKeeps == ASSUME IInv, NEW c \in Clients, Connect(c) PROVE IInv'
<1> DEFINE b == SelectReplay(lastId[c])
<1>1. BrokerTypeOK /\ HistoryIsEnd /\ \A d \in Clients : Client(d)
  BY DEF IInv
<1>2. /\ conn[c] = "closed" /\ conn' = [conn EXCEPT ![c] = "open"]
      /\ replay' = [replay EXCEPT ![c] = b] /\ live' = [live EXCEPT ![c] = <<>>]
      /\ registered' = [registered EXCEPT ![c] = TRUE]
      /\ published' = published /\ history' = history /\ wire' = wire
      /\ lastId' = lastId /\ seen' = seen /\ losses' = losses
  BY DEF Connect, clientVars
<1>3. /\ Sound("open", wire[c], b, <<>>, TRUE, lastId[c], seen[c], published)
      /\ b \in Lines /\ Len(b) <= ReplayLimit + 1
  <2>1. Sound("closed", wire[c], replay[c], live[c], registered[c], lastId[c], seen[c], published)
    BY <1>1, <1>2 DEF Client
  <2> QED BY <1>1, <2>1, ServerTyped, ClientTyped, SoundConnects
<1>4. b \in Seq(Entries)
  <2>1. published \in Nat /\ published \in 0..MaxEvents /\ wire[c] = <<>>
    BY <1>1, <1>2, ServerTyped DEF Client, Sound
  <2> HIDE DEF b
  <2>2. wire[c] \o (b \o <<>>) = b BY <1>3, <2>1, JoinEmpty
  <2>3. Ordered(b, published) BY <1>3, <2>2 DEF Sound, Good
  <2> QED BY <1>3, <2>1, <2>3, LineOfEntries
<1> HIDE DEF b
<1>5. HistoryIsEnd'
  BY <1>1, <1>2 DEF HistoryIsEnd
<1>6. {replay, live, wire} \subseteq [Clients -> Seq(Entries)]
  BY <1>1 DEF BrokerTypeOK, Entries
<1>7. <<>> \in Seq(Entries) /\ Len(<<>>) = 0
  OBVIOUS
<1>8. ASSUME NEW d \in Clients
      PROVE  Client(d)' /\ Len(replay'[d]) <= ReplayLimit + 1 /\ Len(live'[d]) <= QueueSize /\ Len(wire'[d]) <= WireSize
  <2>1. Len(replay[d]) <= ReplayLimit + 1 /\ Len(live[d]) <= QueueSize /\ Len(wire[d]) <= WireSize
    BY <1>1 DEF BrokerTypeOK
  <2>2. CASE d = c
    <3>1. conn'[c] = "open" /\ replay'[c] = b /\ live'[c] = <<>> /\ registered'[c] = TRUE
      BY <1>1, <1>2, <1>6 DEF BrokerTypeOK
    <3>2. Client(c)' BY <1>2, <1>3, <3>1 DEF Client
    <3> QED BY <1>2, <1>3, <1>7, <2>1, <2>2, <3>1, <3>2, BrokerAssumption
  <2>3. CASE d # c
    <3>1. conn'[d] = conn[d] /\ replay'[d] = replay[d] /\ live'[d] = live[d] /\ registered'[d] = registered[d]
      BY <1>1, <1>2, <1>6, <2>3 DEF BrokerTypeOK
    <3>2. Client(d) BY <1>1
    <3>3. Client(d)' BY <1>2, <3>1, <3>2 DEF Client
    <3> QED BY <1>2, <2>1, <3>1, <3>3
  <2> QED BY <2>2, <2>3
<1>9. BrokerTypeOK'
  <2>1. replay' \in [Clients -> Seq(Entries)] BY <1>2, <1>4, <1>6
  <2>2. live' \in [Clients -> Seq(Entries)] BY <1>2, <1>6, <1>7
  <2>3. {replay', live', wire'} \subseteq [Clients -> Seq(1..MaxEvents \cup {Resync})]
    BY <1>2, <1>6, <2>1, <2>2 DEF Entries
  <2>4. conn' \in [Clients -> {"closed", "open", "ended"}] /\ registered' \in [Clients -> BOOLEAN]
    BY <1>1, <1>2 DEF BrokerTypeOK
  <2> QED BY <1>1, <1>2, <1>8, <2>3, <2>4 DEF BrokerTypeOK
<1> QED BY <1>5, <1>8, <1>9 DEF IInv

LEMMA SendReplayKeeps == ASSUME IInv, NEW c \in Clients, SendReplay(c) PROVE IInv'
<1> DEFINE a == Append(wire[c], Head(replay[c]))
           t == Tail(replay[c])
<1>1. BrokerTypeOK /\ HistoryIsEnd /\ \A d \in Clients : Client(d)
  BY DEF IInv
<1>2. {replay, live, wire} \subseteq [Clients -> Seq(Entries)]
  BY <1>1 DEF BrokerTypeOK, Entries
<1>3. /\ conn[c] = "open" /\ replay[c] # <<>> /\ Len(wire[c]) < WireSize
      /\ wire' = [wire EXCEPT ![c] = a] /\ replay' = [replay EXCEPT ![c] = t]
      /\ published' = published /\ history' = history /\ conn' = conn /\ registered' = registered
      /\ live' = live /\ lastId' = lastId /\ seen' = seen /\ losses' = losses
  BY <1>2 DEF SendReplay, clientVars
<1>4. Sound("open", a, t, live[c], registered[c], lastId[c], seen[c], published)
  <2>1. Sound("open", wire[c], replay[c], live[c], registered[c], lastId[c], seen[c], published)
    BY <1>1, <1>3 DEF Client
  <2> QED BY <1>1, <1>3, <2>1, ServerTyped, ClientTyped, SoundSendsReplay
<1>5. a \in Seq(Entries) /\ t \in Seq(Entries) /\ Len(a) <= WireSize /\ Len(t) <= ReplayLimit + 1
  <2>1. wire[c] \in Seq(Entries) /\ replay[c] \in Seq(Entries) BY <1>1, ClientTyped
  <2>2. Len(replay[c]) <= ReplayLimit + 1 BY <1>1 DEF BrokerTypeOK
  <2> QED BY <1>3, <2>1, <2>2, BrokerAssumption
<1> HIDE DEF a, t
<1>6. HistoryIsEnd'
  BY <1>1, <1>3 DEF HistoryIsEnd
<1>7. ASSUME NEW d \in Clients
      PROVE  Client(d)' /\ Len(replay'[d]) <= ReplayLimit + 1 /\ Len(live'[d]) <= QueueSize /\ Len(wire'[d]) <= WireSize
  <2>1. Len(replay[d]) <= ReplayLimit + 1 /\ Len(live[d]) <= QueueSize /\ Len(wire[d]) <= WireSize
    BY <1>1 DEF BrokerTypeOK
  <2>2. CASE d = c
    <3>1. wire'[c] = a /\ replay'[c] = t BY <1>2, <1>3
    <3>2. Client(c)' BY <1>3, <1>4, <3>1 DEF Client
    <3> QED BY <1>3, <1>5, <2>1, <2>2, <3>1, <3>2
  <2>3. CASE d # c
    <3>1. wire'[d] = wire[d] /\ replay'[d] = replay[d] BY <1>2, <1>3, <2>3
    <3>2. Client(d) BY <1>1
    <3>3. Client(d)' BY <1>3, <3>1, <3>2 DEF Client
    <3> QED BY <1>3, <2>1, <3>1, <3>3
  <2> QED BY <2>2, <2>3
<1>8. BrokerTypeOK'
  <2>1. replay' \in [Clients -> Seq(Entries)] BY <1>2, <1>3, <1>5
  <2>2. wire' \in [Clients -> Seq(Entries)] BY <1>2, <1>3, <1>5
  <2>3. {replay', live', wire'} \subseteq [Clients -> Seq(1..MaxEvents \cup {Resync})]
    BY <1>2, <1>3, <2>1, <2>2 DEF Entries
  <2> QED BY <1>1, <1>3, <1>7, <2>3 DEF BrokerTypeOK
<1> QED BY <1>6, <1>7, <1>8 DEF IInv

LEMMA SendLiveKeeps == ASSUME IInv, NEW c \in Clients, SendLive(c) PROVE IInv'
<1> DEFINE a == Append(wire[c], Head(live[c]))
           t == Tail(live[c])
<1>1. BrokerTypeOK /\ HistoryIsEnd /\ \A d \in Clients : Client(d)
  BY DEF IInv
<1>2. {replay, live, wire} \subseteq [Clients -> Seq(Entries)]
  BY <1>1 DEF BrokerTypeOK, Entries
<1>3. /\ conn[c] = "open" /\ replay[c] = <<>> /\ live[c] # <<>> /\ Len(wire[c]) < WireSize
      /\ wire' = [wire EXCEPT ![c] = a] /\ live' = [live EXCEPT ![c] = t]
      /\ published' = published /\ history' = history /\ replay' = replay
      /\ lastId' = lastId /\ seen' = seen /\ losses' = losses
  BY <1>2 DEF SendLive, clientVars
<1>4. \/ /\ Head(live[c]) = Resync
         /\ conn' = [conn EXCEPT ![c] = "ended"] /\ registered' = [registered EXCEPT ![c] = FALSE]
      \/ Head(live[c]) # Resync /\ conn' = conn /\ registered' = registered
  BY DEF SendLive
<1>5. /\ Head(live[c]) = Resync =>
           Sound("ended", a, <<>>, t, FALSE, lastId[c], seen[c], published)
      /\ Head(live[c]) # Resync =>
           Sound("open", a, <<>>, t, registered[c], lastId[c], seen[c], published)
  <2>1. Sound("open", wire[c], <<>>, live[c], registered[c], lastId[c], seen[c], published)
    BY <1>1, <1>3 DEF Client
  <2> QED BY <1>1, <1>3, <2>1, ServerTyped, ClientTyped, SoundSendsLive
<1>6. a \in Seq(Entries) /\ t \in Seq(Entries) /\ Len(a) <= WireSize /\ Len(t) <= QueueSize
  <2>1. wire[c] \in Seq(Entries) /\ live[c] \in Seq(Entries) BY <1>1, ClientTyped
  <2>2. Len(live[c]) <= QueueSize BY <1>1 DEF BrokerTypeOK
  <2> QED BY <1>3, <2>1, <2>2, BrokerAssumption
<1> HIDE DEF a, t
<1>7. HistoryIsEnd'
  BY <1>1, <1>3 DEF HistoryIsEnd
<1>8. conn' \in [Clients -> {"closed", "open", "ended"}] /\ registered' \in [Clients -> BOOLEAN]
  BY <1>1, <1>4 DEF BrokerTypeOK
<1>9. ASSUME NEW d \in Clients
      PROVE  Client(d)' /\ Len(replay'[d]) <= ReplayLimit + 1 /\ Len(live'[d]) <= QueueSize /\ Len(wire'[d]) <= WireSize
  <2>1. Len(replay[d]) <= ReplayLimit + 1 /\ Len(live[d]) <= QueueSize /\ Len(wire[d]) <= WireSize
    BY <1>1 DEF BrokerTypeOK
  <2>2. CASE d = c
    <3>1. wire'[c] = a /\ live'[c] = t /\ replay'[c] = <<>> BY <1>2, <1>3
    <3>2. Client(c)'
      <4>1. CASE Head(live[c]) = Resync
        <5>1. conn'[c] = "ended" /\ registered'[c] = FALSE BY <1>1, <1>4, <4>1 DEF BrokerTypeOK
        <5> QED BY <1>3, <1>5, <3>1, <4>1, <5>1 DEF Client
      <4>2. CASE Head(live[c]) # Resync
        <5>1. conn'[c] = "open" /\ registered'[c] = registered[c] BY <1>3, <1>4, <4>2
        <5> QED BY <1>3, <1>5, <3>1, <4>2, <5>1 DEF Client
      <4> QED BY <4>1, <4>2
    <3> QED BY <1>3, <1>6, <2>1, <2>2, <3>1, <3>2
  <2>3. CASE d # c
    <3>1. wire'[d] = wire[d] /\ live'[d] = live[d] BY <1>2, <1>3, <2>3
    <3>2. conn'[d] = conn[d] /\ registered'[d] = registered[d] BY <1>1, <1>4, <2>3 DEF BrokerTypeOK
    <3>3. Client(d) BY <1>1
    <3>4. Client(d)' BY <1>3, <3>1, <3>2, <3>3 DEF Client
    <3> QED BY <1>3, <2>1, <3>1, <3>4
  <2> QED BY <2>2, <2>3
<1>10. BrokerTypeOK'
  <2>1. live' \in [Clients -> Seq(Entries)] BY <1>2, <1>3, <1>6
  <2>2. wire' \in [Clients -> Seq(Entries)] BY <1>2, <1>3, <1>6
  <2>3. {replay', live', wire'} \subseteq [Clients -> Seq(1..MaxEvents \cup {Resync})]
    BY <1>2, <1>3, <2>1, <2>2 DEF Entries
  <2> QED BY <1>1, <1>3, <1>8, <1>9, <2>3 DEF BrokerTypeOK
<1> QED BY <1>7, <1>9, <1>10 DEF IInv

LEMMA ReadKeeps == ASSUME IInv, NEW c \in Clients, ReadNext(c) PROVE IInv'
<1> DEFINE line == Head(wire[c])
           t == Tail(wire[c])
<1>1. BrokerTypeOK /\ HistoryIsEnd /\ \A d \in Clients : Client(d)
  BY DEF IInv
<1>2. {replay, live, wire} \subseteq [Clients -> Seq(Entries)]
  BY <1>1 DEF BrokerTypeOK, Entries
<1>3. /\ conn[c] # "closed" /\ wire[c] # <<>> /\ wire' = [wire EXCEPT ![c] = t]
      /\ published' = published /\ history' = history /\ conn' = conn /\ registered' = registered
      /\ replay' = replay /\ live' = live /\ losses' = losses
  BY <1>2 DEF ReadNext, Readable, Read, serverVars
<1>4. \/ line \in seen[c] /\ lastId' = lastId /\ seen' = seen
      \/ line \notin seen[c] /\ line = Resync /\ lastId' = [lastId EXCEPT ![c] = Resync]
         /\ seen' = [seen EXCEPT ![c] = seen[c]]
      \/ line \notin seen[c] /\ line # Resync /\ lastId' = [lastId EXCEPT ![c] = line]
         /\ seen' = [seen EXCEPT ![c] = seen[c] \cup {line}]
  BY DEF ReadNext, Read, clientVars
<1>5. lastId \in [Clients -> 1..MaxEvents \cup {None, Resync}] /\ seen \in [Clients -> SUBSET (1..MaxEvents)]
  BY <1>1 DEF BrokerTypeOK
<1>6. /\ line \in seen[c] =>
           Sound(conn[c], t, replay[c], live[c], registered[c], lastId[c], seen[c], published)
      /\ line = Resync =>
           Sound(conn[c], t, replay[c], live[c], registered[c], Resync, seen[c], published)
      /\ line # Resync /\ line \notin seen[c] =>
           Sound(conn[c], t, replay[c], live[c], registered[c], line, seen[c] \cup {line}, published)
  <2>1. Sound(conn[c], wire[c], replay[c], live[c], registered[c], lastId[c], seen[c], published)
    BY <1>1 DEF Client
  <2> QED BY <1>1, <1>3, <2>1, ServerTyped, ClientTyped, SoundReads
<1>7. t \in Seq(Entries) /\ Len(t) <= WireSize /\ line \in Entries
  <2>1. wire[c] \in Seq(Entries) BY <1>1, ClientTyped
  <2>2. Len(wire[c]) <= WireSize BY <1>1 DEF BrokerTypeOK
  <2> QED BY <1>3, <2>1, <2>2, BrokerAssumption
<1> HIDE DEF line, t
<1>8. HistoryIsEnd'
  BY <1>1, <1>3 DEF HistoryIsEnd
<1>9. lastId' \in [Clients -> 1..MaxEvents \cup {None, Resync}] /\ seen' \in [Clients -> SUBSET (1..MaxEvents)]
  <2>1. line # Resync => line \in 1..MaxEvents BY <1>7 DEF Entries
  <2> QED BY <1>4, <1>5, <2>1
<1>10. ASSUME NEW d \in Clients
       PROVE  Client(d)' /\ Len(replay'[d]) <= ReplayLimit + 1 /\ Len(live'[d]) <= QueueSize /\ Len(wire'[d]) <= WireSize
  <2>1. Len(replay[d]) <= ReplayLimit + 1 /\ Len(live[d]) <= QueueSize /\ Len(wire[d]) <= WireSize
    BY <1>1 DEF BrokerTypeOK
  <2>2. CASE d = c
    <3>1. wire'[c] = t BY <1>2, <1>3
    <3>2. Client(c)'
      <4>1. CASE line \in seen[c] /\ lastId' = lastId /\ seen' = seen
        BY <1>3, <1>6, <3>1, <4>1 DEF Client
      <4>2. CASE line = Resync /\ lastId' = [lastId EXCEPT ![c] = Resync] /\ seen' = [seen EXCEPT ![c] = seen[c]]
        <5>1. lastId'[c] = Resync /\ seen'[c] = seen[c] BY <1>5, <4>2
        <5> QED BY <1>3, <1>6, <3>1, <4>2, <5>1 DEF Client
      <4>3. CASE /\ line \notin seen[c] /\ line # Resync
                 /\ lastId' = [lastId EXCEPT ![c] = line] /\ seen' = [seen EXCEPT ![c] = seen[c] \cup {line}]
        <5>1. lastId'[c] = line /\ seen'[c] = seen[c] \cup {line} BY <1>5, <4>3
        <5> QED BY <1>3, <1>6, <3>1, <4>3, <5>1 DEF Client
      <4> QED BY <1>4, <4>1, <4>2, <4>3
    <3> QED BY <1>3, <1>7, <2>1, <2>2, <3>1, <3>2
  <2>3. CASE d # c
    <3>1. wire'[d] = wire[d] BY <1>2, <1>3, <2>3
    <3>2. lastId'[d] = lastId[d] /\ seen'[d] = seen[d] BY <1>4, <1>5, <2>3
    <3>3. Client(d) BY <1>1
    <3>4. Client(d)' BY <1>3, <3>1, <3>2, <3>3 DEF Client
    <3> QED BY <1>3, <2>1, <3>1, <3>4
  <2> QED BY <2>2, <2>3
<1>11. BrokerTypeOK'
  <2>1. wire' \in [Clients -> Seq(Entries)] BY <1>2, <1>3, <1>7
  <2>2. {replay', live', wire'} \subseteq [Clients -> Seq(1..MaxEvents \cup {Resync})]
    BY <1>2, <1>3, <2>1 DEF Entries
  <2> QED BY <1>1, <1>3, <1>9, <1>10, <2>2 DEF BrokerTypeOK
<1> QED BY <1>8, <1>10, <1>11 DEF IInv

LEMMA FinishKeeps == ASSUME IInv, NEW c \in Clients, Finish(c) PROVE IInv'
<1>1. BrokerTypeOK /\ HistoryIsEnd /\ \A d \in Clients : Client(d)
  BY DEF IInv
<1>2. /\ conn[c] = "ended" /\ wire[c] = <<>> /\ conn' = [conn EXCEPT ![c] = "closed"]
      /\ published' = published /\ history' = history /\ wire' = wire /\ registered' = registered
      /\ replay' = replay /\ live' = live /\ lastId' = lastId /\ seen' = seen /\ losses' = losses
  BY DEF Finish, serverVars, clientVars
<1>3. HistoryIsEnd'
  BY <1>1, <1>2 DEF HistoryIsEnd
<1>4. conn \in [Clients -> {"closed", "open", "ended"}]
  BY <1>1 DEF BrokerTypeOK
<1>5. ASSUME NEW d \in Clients PROVE Client(d)'
  <2>1. Client(d) BY <1>1
  <2>2. CASE d = c
    <3>1. Sound("ended", wire[c], replay[c], live[c], registered[c], lastId[c], seen[c], published)
      BY <1>2, <2>1, <2>2 DEF Client
    <3>2. Sound("closed", wire[c], replay[c], live[c], registered[c], lastId[c], seen[c], published)
      BY <1>2, <3>1, SoundFinishes
    <3>3. conn'[c] = "closed" BY <1>2, <1>4
    <3> QED BY <1>2, <2>2, <3>2, <3>3 DEF Client
  <2>3. CASE d # c
    <3>1. conn'[d] = conn[d] BY <1>2, <1>4, <2>3
    <3> QED BY <1>2, <2>1, <3>1 DEF Client
  <2> QED BY <2>2, <2>3
<1>6. BrokerTypeOK'
  <2>1. conn' \in [Clients -> {"closed", "open", "ended"}] BY <1>2, <1>4
  <2> QED BY <1>1, <1>2, <2>1 DEF BrokerTypeOK
<1> QED BY <1>3, <1>5, <1>6 DEF IInv

LEMMA LoseKeeps == ASSUME IInv, NEW c \in Clients, Lose(c) PROVE IInv'
<1>1. BrokerTypeOK /\ HistoryIsEnd /\ \A d \in Clients : Client(d)
  BY DEF IInv
<1>2. {replay, live, wire} \subseteq [Clients -> Seq(Entries)]
  BY <1>1 DEF BrokerTypeOK, Entries
<1>3. /\ losses < MaxLosses /\ losses' = losses + 1 /\ conn' = [conn EXCEPT ![c] = "closed"]
      /\ wire' = [wire EXCEPT ![c] = <<>>] /\ replay' = [replay EXCEPT ![c] = <<>>]
      /\ live' = [live EXCEPT ![c] = <<>>] /\ registered' = [registered EXCEPT ![c] = FALSE]
      /\ published' = published /\ history' = history /\ lastId' = lastId /\ seen' = seen
  BY DEF Lose, clientVars
<1>4. <<>> \in Seq(Entries) /\ Len(<<>>) = 0
  OBVIOUS
<1>5. HistoryIsEnd'
  BY <1>1, <1>3 DEF HistoryIsEnd
<1>6. ASSUME NEW d \in Clients
      PROVE  Client(d)' /\ Len(replay'[d]) <= ReplayLimit + 1 /\ Len(live'[d]) <= QueueSize /\ Len(wire'[d]) <= WireSize
  <2>1. Len(replay[d]) <= ReplayLimit + 1 /\ Len(live[d]) <= QueueSize /\ Len(wire[d]) <= WireSize
    BY <1>1 DEF BrokerTypeOK
  <2>2. CASE d = c
    <3>1. /\ conn'[c] = "closed" /\ wire'[c] = <<>> /\ replay'[c] = <<>> /\ live'[c] = <<>>
          /\ registered'[c] = FALSE
      BY <1>1, <1>2, <1>3 DEF BrokerTypeOK
    <3>2. Sound(conn[c], wire[c], replay[c], live[c], registered[c], lastId[c], seen[c], published)
      BY <1>1 DEF Client
    <3>3. Sound("closed", <<>>, <<>>, <<>>, FALSE, lastId[c], seen[c], published)
      BY <3>2, SoundLoses
    <3>4. Client(c)' BY <1>3, <3>1, <3>3 DEF Client
    <3> QED BY <1>4, <2>2, <3>1, <3>4, BrokerAssumption
  <2>3. CASE d # c
    <3>1. /\ conn'[d] = conn[d] /\ wire'[d] = wire[d] /\ replay'[d] = replay[d] /\ live'[d] = live[d]
          /\ registered'[d] = registered[d]
      BY <1>1, <1>2, <1>3, <2>3 DEF BrokerTypeOK
    <3>2. Client(d) BY <1>1
    <3>3. Client(d)' BY <1>3, <3>1, <3>2 DEF Client
    <3> QED BY <2>1, <3>1, <3>3
  <2> QED BY <2>2, <2>3
<1>7. BrokerTypeOK'
  <2>1. replay' \in [Clients -> Seq(Entries)] BY <1>2, <1>3, <1>4
  <2>2. live' \in [Clients -> Seq(Entries)] BY <1>2, <1>3, <1>4
  <2>3. wire' \in [Clients -> Seq(Entries)] BY <1>2, <1>3, <1>4
  <2>4. {replay', live', wire'} \subseteq [Clients -> Seq(1..MaxEvents \cup {Resync})]
    BY <2>1, <2>2, <2>3 DEF Entries
  <2>5. conn' \in [Clients -> {"closed", "open", "ended"}] /\ registered' \in [Clients -> BOOLEAN]
    BY <1>1, <1>3 DEF BrokerTypeOK
  <2>6. losses' \in 0..MaxLosses
    BY <1>1, <1>3, BrokerAssumption DEF BrokerTypeOK
  <2> QED BY <1>1, <1>3, <1>6, <2>4, <2>5, <2>6 DEF BrokerTypeOK
<1> QED BY <1>5, <1>6, <1>7 DEF IInv

LEMMA StutterKeeps == ASSUME IInv, UNCHANGED brokerVars PROVE IInv'
<1>1. /\ published' = published /\ history' = history /\ conn' = conn /\ registered' = registered
      /\ replay' = replay /\ live' = live /\ wire' = wire /\ lastId' = lastId /\ seen' = seen
      /\ losses' = losses
  BY DEF brokerVars, serverVars, clientVars
<1>2. BrokerTypeOK'
  BY <1>1 DEF IInv, BrokerTypeOK
<1>3. HistoryIsEnd'
  BY <1>1 DEF IInv, HistoryIsEnd
<1>4. \A c \in Clients : Client(c)'
  BY <1>1 DEF IInv, Client
<1> QED BY <1>2, <1>3, <1>4 DEF IInv

LEMMA IInvNext == IInv /\ [Next]_brokerVars => IInv'
<1> SUFFICES ASSUME IInv, [Next]_brokerVars PROVE IInv'
  OBVIOUS
<1>1. CASE Publish BY <1>1, PublishKeeps
<1>2. ASSUME NEW c \in Clients, StreamNext(c) \/ Lose(c) PROVE IInv'
  <2>1. CASE Connect(c) BY <2>1, ConnectKeeps
  <2>2. CASE SendReplay(c) BY <2>2, SendReplayKeeps
  <2>3. CASE SendLive(c) BY <2>3, SendLiveKeeps
  <2>4. CASE ReadNext(c) BY <2>4, ReadKeeps
  <2>5. CASE Finish(c) BY <2>5, FinishKeeps
  <2>6. CASE Lose(c) BY <2>6, LoseKeeps
  <2> QED BY <1>2, <2>1, <2>2, <2>3, <2>4, <2>5, <2>6 DEF StreamNext, ServeNext
<1>3. CASE UNCHANGED brokerVars BY <1>3, StutterKeeps
<1> QED BY <1>1, <1>2, <1>3 DEF Next

\* In every state of the broker the history is the end of the log, and the line of each
\* client, parted into connection, replay and live queue, takes up where the client is,
\* has no gap that a marker does not announce, and leads to the newest event.
THEOREM BrokerInvariant == Spec => []IInv
<1>1. Init => IInv BY IInvInit
<1>2. IInv /\ [Next]_brokerVars => IInv' BY IInvNext
<1> QED BY <1>1, <1>2, PTL DEF Spec

\* The queues of ApplicationEventBroker and the buffers of a connection keep their
\* bounds, and hold events of the log and markers only.
THEOREM BrokerTypeCorrect == Spec => []BrokerTypeOK
<1>1. IInv => BrokerTypeOK BY DEF IInv
<1> QED BY <1>1, BrokerInvariant, PTL

-----------------------------------------------------------------------------
(***************************************************************************)
(* What the clients see implements the feed: a client that reads sees the  *)
(* next event or was warned, and every other step is not seen by it.       *)
(***************************************************************************)

LEMMA PositionIs ==
  /\ Position = [c \in Clients |-> Newest(seen[c])]
  /\ Warned = [c \in Clients |-> lastId[c] \in {None, Resync}]
  BY DEF Position, Warned, Newest

LEMMA FeedInit == Init => Feed!Init
<1> SUFFICES ASSUME Init PROVE Feed!Init
  OBVIOUS
<1>1. Newest({}) = 0
  <2>1. {} \in SUBSET (1..0) /\ 0 \in Nat OBVIOUS
  <2>2. Newest({}) \in 0..0 BY <2>1, NewestIs
  <2> QED BY <2>2
<1>2. \A c \in Clients : seen[c] = {} /\ lastId[c] = None
  BY DEF Init
<1>3. Position = [c \in Clients |-> 0]
  BY <1>1, <1>2, PositionIs
<1>4. Warned = [c \in Clients |-> TRUE]
  BY <1>2, PositionIs
<1>5. published = 0
  BY DEF Init
<1> QED BY <1>3, <1>4, <1>5 DEF Feed!Init

\* The client sees what it has seen, in the state after a step.
LEMMA UnseenStep ==
  ASSUME seen' = seen, lastId' = lastId
  PROVE  Position' = Position /\ Warned' = Warned
  BY DEF Position, Warned

LEMMA FeedReads ==
  ASSUME IInv, NEW c \in Clients, ReadNext(c)
  PROVE  Feed!Next \/ UNCHANGED <<published, Position, Warned>>
<1> DEFINE line == Head(wire[c])
<1>1. BrokerTypeOK /\ Client(c)
  BY DEF IInv
<1>2. seen \in [Clients -> SUBSET (1..MaxEvents)] /\ lastId \in [Clients -> 1..MaxEvents \cup {None, Resync}]
  BY <1>1 DEF BrokerTypeOK
<1>3. published' = published /\ conn[c] # "closed" /\ wire[c] # <<>>
  BY DEF ReadNext, Readable, Read
<1>4. \/ lastId' = lastId /\ seen' = seen
      \/ line = Resync /\ lastId' = [lastId EXCEPT ![c] = Resync] /\ seen' = seen
      \/ line \notin seen[c] /\ line # Resync /\ lastId' = [lastId EXCEPT ![c] = line]
         /\ seen' = [seen EXCEPT ![c] = seen[c] \cup {line}]
  <2>1. [seen EXCEPT ![c] = seen[c]] = seen BY <1>2
  <2> QED BY <2>1 DEF ReadNext, Read, clientVars
<1>5. line # Resync /\ line \notin seen[c] =>
        /\ line \in (Newest(seen[c]) + 1)..published
        /\ line = Newest(seen[c]) + 1 \/ lastId[c] \in {None, Resync}
        /\ Newest(seen[c] \cup {line}) = line
  <2>1. Sound(conn[c], wire[c], replay[c], live[c], registered[c], lastId[c], seen[c], published)
    BY <1>1 DEF Client
  <2>2. published \in Nat /\ wire[c] \in Lines /\ replay[c] \in Lines /\ live[c] \in Lines
    BY <1>1, ServerTyped, ClientTyped
  <2>3. Head(wire[c]) # Resync /\ Head(wire[c]) \notin seen[c] =>
          /\ Head(wire[c]) \in (Newest(seen[c]) + 1)..published
          /\ Head(wire[c]) = Newest(seen[c]) + 1 \/ lastId[c] \in {None, Resync}
          /\ Newest(seen[c] \cup {Head(wire[c])}) = Head(wire[c])
          /\ Sound(conn[c], Tail(wire[c]), replay[c], live[c], registered[c], Head(wire[c]),
                   seen[c] \cup {Head(wire[c])}, published)
    BY <1>3, <2>1, <2>2, SoundReads
  <2> QED BY <2>3
<1> HIDE DEF line
<1>6. CASE lastId' = lastId /\ seen' = seen
  BY <1>3, <1>6, UnseenStep
<1>7. CASE line = Resync /\ lastId' = [lastId EXCEPT ![c] = Resync] /\ seen' = seen
  <2>1. Position' = Position BY <1>7 DEF Position
  <2>2. Warned' = [Warned EXCEPT ![c] = TRUE]
    <3>1. Warned' = [d \in Clients |-> lastId'[d] \in {None, Resync}] BY DEF Warned
    <3>2. lastId'[c] \in {None, Resync} BY <1>2, <1>7
    <3>3. \A d \in Clients : d # c => lastId'[d] = lastId[d] BY <1>2, <1>7
    <3>4. \A d \in Clients : (lastId'[d] \in {None, Resync}) = IF d = c THEN TRUE ELSE Warned[d]
      <4>1. \A d \in Clients : Warned[d] = (lastId[d] \in {None, Resync}) BY PositionIs
      <4> QED BY <3>2, <3>3, <4>1
    <3> QED BY <3>1, <3>4, PositionIs
  <2>3. Feed!Warn(c) BY <1>3, <2>1, <2>2 DEF Feed!Warn
  <2> QED BY <2>3 DEF Feed!Next
<1>8. CASE /\ line \notin seen[c] /\ line # Resync /\ lastId' = [lastId EXCEPT ![c] = line]
           /\ seen' = [seen EXCEPT ![c] = seen[c] \cup {line}]
  <2>1. Position[c] = Newest(seen[c]) /\ Warned[c] = (lastId[c] \in {None, Resync})
    BY PositionIs
  <2>2. line \in (Position[c] + 1)..published /\ (line = Position[c] + 1 \/ Warned[c])
    BY <1>5, <1>8, <2>1
  <2>3. Position' = [Position EXCEPT ![c] = line]
    <3>1. Position' = [d \in Clients |-> Newest(seen'[d])] BY DEF Position, Newest
    <3>2. seen'[c] = seen[c] \cup {line} /\ \A d \in Clients : d # c => seen'[d] = seen[d]
      BY <1>2, <1>8
    <3>3. \A d \in Clients : Newest(seen'[d]) = IF d = c THEN line ELSE Position[d]
      BY <1>5, <1>8, <3>2, PositionIs
    <3> QED BY <3>1, <3>3, PositionIs
  <2>4. Warned' = [Warned EXCEPT ![c] = FALSE]
    <3>1. Warned' = [d \in Clients |-> lastId'[d] \in {None, Resync}] BY DEF Warned
    <3>2. lastId'[c] = line /\ \A d \in Clients : d # c => lastId'[d] = lastId[d]
      BY <1>2, <1>8
    <3>3. line \notin {None, Resync}
      <4>1. published \in Nat BY <1>1, ServerTyped
      <4>2. line \in Nat
        <5>1. Newest(seen[c]) \in Nat
          <6>1. seen[c] \in SUBSET (1..published) BY <1>1 DEF Client, Sound
          <6> QED BY <4>1, <6>1, NewestIs
        <5> QED BY <1>5, <1>8, <4>1, <5>1
      <4> QED BY <4>2, MarkersAreNoEvents
    <3>4. \A d \in Clients : (lastId'[d] \in {None, Resync}) = IF d = c THEN FALSE ELSE Warned[d]
      <4>1. \A d \in Clients : Warned[d] = (lastId[d] \in {None, Resync}) BY PositionIs
      <4>2. (lastId'[c] \in {None, Resync}) = FALSE BY <3>2, <3>3
      <4>3. \A d \in Clients : d # c => (lastId'[d] \in {None, Resync}) = Warned[d]
        BY <3>2, <4>1
      <4> QED BY <4>2, <4>3
    <3> QED BY <3>1, <3>4, PositionIs
  <2>5. Feed!See(c, line) BY <1>3, <2>2, <2>3, <2>4 DEF Feed!See
  <2> QED BY <2>2, <2>5 DEF Feed!Next
<1> QED BY <1>4, <1>6, <1>7, <1>8

LEMMA FeedNext == IInv /\ [Next]_brokerVars => [Feed!Next]_<<published, Position, Warned>>
<1> SUFFICES ASSUME IInv, [Next]_brokerVars
             PROVE  Feed!Next \/ UNCHANGED <<published, Position, Warned>>
  OBVIOUS
<1>1. CASE Publish
  <2>1. seen' = seen /\ lastId' = lastId /\ published' = published + 1
    BY <1>1 DEF Publish, clientVars
  <2>2. Feed!Publish BY <2>1, UnseenStep DEF Feed!Publish
  <2> QED BY <2>2 DEF Feed!Next
<1>2. ASSUME NEW c \in Clients, StreamNext(c) \/ Lose(c)
      PROVE  Feed!Next \/ UNCHANGED <<published, Position, Warned>>
  <2>1. CASE ReadNext(c) BY <2>1, FeedReads
  <2>2. CASE Connect(c) \/ SendReplay(c) \/ SendLive(c) \/ Finish(c) \/ Lose(c)
    <3>1. seen' = seen /\ lastId' = lastId /\ published' = published
      BY <2>2 DEF Connect, SendReplay, SendLive, Finish, Lose, clientVars
    <3> QED BY <3>1, UnseenStep
  <2> QED BY <1>2, <2>1, <2>2 DEF StreamNext, ServeNext
<1>3. CASE UNCHANGED brokerVars
  <2>1. seen' = seen /\ lastId' = lastId /\ published' = published
    BY <1>3 DEF brokerVars, clientVars
  <2> QED BY <2>1, UnseenStep
<1> QED BY <1>1, <1>2, <1>3 DEF Next

\* EventSubscription, the endpoint that serves it and EventStreamClient together keep
\* what the feed promises: through replay, overflow, lost connections and the client's
\* filter of duplicates, no event reaches a client twice or after a newer one, and none
\* is skipped that system.resync_required did not announce.
THEOREM BrokerImplementsFeed == Spec => ImplementsFeed
<1>1. Init => Feed!Init BY FeedInit
<1>2. IInv /\ [Next]_brokerVars => [Feed!Next]_<<published, Position, Warned>> BY FeedNext
<1> QED BY <1>1, <1>2, BrokerInvariant, PTL DEF Spec, ImplementsFeed, Feed!Spec

\* The console is one use of the broker: none of its steps is a step the broker does not
\* take.
LEMMA ConsoleStepIsBroker == ASSUME [ConsoleNext]_vars PROVE Next \/ UNCHANGED brokerVars
<1>1. CASE Publish /\ UNCHANGED consoleVars BY <1>1 DEF Next
<1>2. ASSUME NEW c \in Clients, StreamStep(c) \/ ConsoleLoses(c) PROVE Next
  BY <1>2 DEF StreamStep, ConsoleConnects, ConsoleReads, ConsoleFinishes, ConsoleLoses, Next, StreamNext
<1>3. ASSUME NEW c \in Clients, NEW t \in Thread, LoadStep(c, t) PROVE UNCHANGED brokerVars
  BY <1>3 DEF LoadStep, LoadSees, LoadMarks, LoadSubmits
<1>4. ASSUME NEW c \in Clients, NEW w \in Workers, WorkerStep(c, w) \/ \E op \in Op : Fails(c, w, op)
      PROVE  UNCHANGED brokerVars
  BY <1>4 DEF WorkerStep, Answers, Fails, Takes, Frees, Handles, ReadsMark, ClearsMark
<1>5. CASE UNCHANGED vars BY <1>5 DEF vars
<1> QED BY <1>1, <1>2, <1>3, <1>4, <1>5 DEF ConsoleNext

LEMMA ConsoleUsesBroker == ConsoleSpec => Spec
<1>1. ConsoleInit => Init BY DEF ConsoleInit
<1>2. [ConsoleNext]_vars => [Next]_brokerVars BY ConsoleStepIsBroker
<1> QED BY <1>1, <1>2, PTL DEF ConsoleSpec, Spec

\* The promise of the feed holds under the console too, whatever its requests and its
\* window do.
THEOREM ConsoleImplementsFeed == ConsoleSpec => ImplementsFeed
  BY ConsoleUsesBroker, BrokerImplementsFeed, PTL

-----------------------------------------------------------------------------
(***************************************************************************)
(* The console's own variables.                                            *)
(***************************************************************************)

LEMMA GoesTyped ==
  ASSUME ConsoleTypeOK, NEW c \in Clients, NEW t \in Thread, NEW place \in Place, Goes(c, t, place)
  PROVE  at' \in [Clients -> [Thread -> Place]]
  BY DEF ConsoleTypeOK, Goes

LEMMA SubmitTyped ==
  ASSUME ConsoleTypeOK, NEW c \in Clients, NEW op \in Op, Submit(c, op)
  PROVE  {busy', asked'} \subseteq [Clients -> SUBSET Op] /\ task' = task
  BY DEF ConsoleTypeOK, Submit

LEMMA ShowsTyped ==
  ASSUME ConsoleTypeOK, NEW c \in Clients, NEW state \in 0..MaxEvents,
         Shows(c, state) \/ ShowsUndated(c) \/ UNCHANGED shown
  PROVE  view' \in [Clients -> 0..MaxEvents \cup {None}] /\ newest' \in [Clients -> 0..MaxEvents]
<1> USE DEF ConsoleTypeOK
<1>1. CASE Shows(c, state)
  <2>1. newest' \in [Clients -> 0..MaxEvents] BY <1>1 DEF Shows
  <2>2. view' \in [Clients -> 0..MaxEvents \cup {None}] BY <1>1 DEF Shows
  <2> QED BY <2>1, <2>2
<1>2. CASE ShowsUndated(c) BY <1>2 DEF ShowsUndated
<1>3. CASE UNCHANGED shown BY <1>3 DEF shown
<1> QED BY <1>1, <1>2, <1>3

LEMMA LoadTyped ==
  ASSUME BrokerTypeOK, ConsoleTypeOK, NEW c \in Clients, NEW t \in Thread, LoadStep(c, t)
  PROVE  ConsoleTypeOK'
<1> USE DEF ConsoleTypeOK
<1>1. {"idle", "marks", "submits"} \subseteq Place BY DEF Place
<1>2. 0 \in 0..MaxEvents BY BrokerAssumption
<1>3. CASE LoadSees(c, t)
  <2>1. at' \in [Clients -> [Thread -> Place]] BY <1>1, <1>3, GoesTyped DEF LoadSees
  <2> QED BY <1>3, <2>1 DEF LoadSees, shown, requests
<1>4. CASE LoadMarks(c, t)
  <2>1. at' \in [Clients -> [Thread -> Place]] BY <1>1, <1>4, GoesTyped DEF LoadMarks
  <2>2. pending' \in [Clients -> BOOLEAN] BY <1>4 DEF LoadMarks
  <2>3. promised' \in [Clients -> 0..MaxEvents] BY <1>2, <1>4 DEF LoadMarks
  <2> QED BY <1>4, <2>1, <2>2, <2>3 DEF LoadMarks, shown, requests
<1>5. CASE LoadSubmits(c, t)
  <2>1. at' \in [Clients -> [Thread -> Place]] BY <1>1, <1>5, GoesTyped DEF LoadSubmits
  <2>2. {busy', asked'} \subseteq [Clients -> SUBSET Op] /\ task' = task
    BY <1>5, SubmitTyped DEF LoadSubmits, Op
  <2> QED BY <1>5, <2>1, <2>2 DEF LoadSubmits, shown
<1> QED BY <1>3, <1>4, <1>5 DEF LoadStep

LEMMA StreamTyped ==
  ASSUME BrokerTypeOK, ConsoleTypeOK, NEW c \in Clients, StreamStep(c) \/ ConsoleLoses(c)
  PROVE  ConsoleTypeOK'
<1> USE DEF ConsoleTypeOK
<1>1. published \in 0..MaxEvents BY DEF BrokerTypeOK
<1>2. CASE UNCHANGED consoleVars BY <1>2 DEF consoleVars, shown, requests
<1>3. CASE ConsoleConnects(c)
  <2>1. sseConnected' \in [Clients -> BOOLEAN] BY <1>3 DEF ConsoleConnects
  <2>2. at' \in [Clients -> [Thread -> Place]]
    BY <1>3, GoesTyped DEF ConsoleConnects, Thread, Place
  <2>3. promised' \in [Clients -> 0..MaxEvents] BY <1>1, <1>3 DEF ConsoleConnects
  <2> QED BY <1>3, <2>1, <2>2, <2>3 DEF ConsoleConnects, shown, requests
<1>4. CASE ConsoleLoses(c)
  BY <1>4 DEF ConsoleLoses, shown, requests
<1>5. CASE ConsoleReads(c)
  <2> DEFINE line == Head(wire[c])
  <2>1. line \in Entries
    <3>1. wire[c] \in Seq(Entries) BY ClientTyped
    <3>2. wire[c] # <<>> BY <1>5 DEF ConsoleReads, ReadNext, Readable
    <3> QED BY <3>1, <3>2
  <2>2. line # Resync => line \in 0..MaxEvents BY <2>1, BrokerAssumption DEF Entries
  <2>3. /\ \/ UNCHANGED shown /\ UNCHANGED requests
           \/ line # Resync /\ Shows(c, line) /\ UNCHANGED requests
           \/ ShowsUndated(c) /\ UNCHANGED requests
           \/ UNCHANGED shown /\ Submit(c, "session-status")
        /\ UNCHANGED <<sseConnected, coreConnected, pending, at, promised, failures>>
    BY <1>5 DEF ConsoleReads
  <2> HIDE DEF line
  <2>4. view' \in [Clients -> 0..MaxEvents \cup {None}] /\ newest' \in [Clients -> 0..MaxEvents]
    BY <1>1, <2>2, <2>3, ShowsTyped
  <2>5. {busy', asked'} \subseteq [Clients -> SUBSET Op] /\ task' = task
    <3>1. "session-status" \in Op BY DEF Op
    <3> QED BY <2>3, <3>1, SubmitTyped DEF requests
  <2> QED BY <2>3, <2>4, <2>5
<1> QED BY <1>2, <1>3, <1>4, <1>5 DEF StreamStep, ConsoleFinishes

LEMMA WorkerTyped ==
  ASSUME BrokerTypeOK, ConsoleTypeOK, NEW c \in Clients, NEW w \in Workers,
         WorkerStep(c, w) \/ \E op \in Op : Fails(c, w, op)
  PROVE  ConsoleTypeOK'
<1> USE DEF ConsoleTypeOK
<1>1. w \in Thread /\ published \in 0..MaxEvents /\ 0 \in 0..MaxEvents
  BY BrokerAssumption DEF BrokerTypeOK, Thread
<1>2. \A place \in {"idle", "answered", "freed", "handled", "marked", "loads"} : place \in Place
  BY DEF Place
<1>3. ASSUME NEW op \in Op, NEW result \in Result, Takes(c, w, op, result), failures' \in 0..MaxFailures
      PROVE  ConsoleTypeOK'
  <2>1. at' \in [Clients -> [Thread -> Place]] BY <1>1, <1>2, <1>3, GoesTyped DEF Takes
  <2>2. asked' \in [Clients -> SUBSET Op] BY <1>3 DEF Takes
  <2>3. task' \in [Clients -> [Workers -> Result]] BY <1>3 DEF Takes
  <2> QED BY <1>3, <2>1, <2>2, <2>3 DEF Takes, shown
<1>4. ASSUME NEW op \in Op, Answers(c, w, op) PROVE ConsoleTypeOK'
  <2>1. [op |-> op, outcome |-> "answer", state |-> published] \in Result BY <1>1 DEF Result
  <2> QED BY <1>3, <1>4, <2>1 DEF Answers
<1>5. ASSUME NEW op \in Op, Fails(c, w, op) PROVE ConsoleTypeOK'
  <2>1. \A outcome \in {"unavailable", "refused", "raised"} :
           [op |-> op, outcome |-> outcome, state |-> 0] \in Result
    BY <1>1 DEF Result
  <2>2. failures' \in 0..MaxFailures BY <1>5, ConsoleAssumption DEF Fails
  <2> QED BY <1>3, <1>5, <2>1, <2>2 DEF Fails
<1>6. CASE Frees(c, w)
  <2>1. at' \in [Clients -> [Thread -> Place]] BY <1>1, <1>2, <1>6, GoesTyped DEF Frees
  <2>2. busy' \in [Clients -> SUBSET Op] BY <1>6 DEF Frees
  <2> QED BY <1>6, <2>1, <2>2 DEF Frees, shown
<1>7. CASE Handles(c, w)
  <2>1. task[c][w] \in Result OBVIOUS
  <2>2. at' \in [Clients -> [Thread -> Place]] BY <1>1, <1>2, <1>7, GoesTyped DEF Handles
  <2>3. coreConnected' \in [Clients -> BOOLEAN] BY <1>7 DEF Handles
  <2>4. view' \in [Clients -> 0..MaxEvents \cup {None}] /\ newest' \in [Clients -> 0..MaxEvents]
    BY <1>7, <2>1, ShowsTyped DEF Handles, Result
  <2>5. promised' \in [Clients -> 0..MaxEvents] BY <1>1, <1>7 DEF Handles
  <2>6. task' \in [Clients -> [Workers -> Result]]
    <3>1. Blank \in Result BY <1>1 DEF Blank, Result, Op
    <3> QED BY <1>7, <3>1 DEF Handles
  <2> QED BY <1>7, <2>2, <2>3, <2>4, <2>5, <2>6 DEF Handles
<1>8. CASE ReadsMark(c, w)
  <2>1. at' \in [Clients -> [Thread -> Place]] BY <1>1, <1>2, <1>8, GoesTyped DEF ReadsMark
  <2> QED BY <1>8, <2>1 DEF ReadsMark, shown, requests
<1>9. CASE ClearsMark(c, w)
  <2>1. at' \in [Clients -> [Thread -> Place]] BY <1>1, <1>2, <1>9, GoesTyped DEF ClearsMark
  <2>2. pending' \in [Clients -> BOOLEAN] BY <1>9 DEF ClearsMark
  <2>3. promised' \in [Clients -> 0..MaxEvents] BY <1>1, <1>9 DEF ClearsMark
  <2> QED BY <1>9, <2>1, <2>2, <2>3 DEF ClearsMark, shown, requests
<1> QED BY <1>4, <1>5, <1>6, <1>7, <1>8, <1>9 DEF WorkerStep

LEMMA ConsoleTypeNext ==
  ASSUME BrokerTypeOK, ConsoleTypeOK, [ConsoleNext]_vars
  PROVE  ConsoleTypeOK'
<1>1. CASE UNCHANGED consoleVars
  BY <1>1 DEF consoleVars, shown, requests, ConsoleTypeOK
<1> QED BY <1>1, LoadTyped, StreamTyped, WorkerTyped DEF ConsoleNext, vars

\* StreamPreparationController's threads are where load and completed let them be, and
\* the window is given only states that were there.
THEOREM ConsoleTypeCorrect == ConsoleSpec => []TypeOK
<1>1. ConsoleInit => ConsoleTypeOK
  <2>1. 0 \in 0..MaxEvents /\ 0 \in 0..MaxFailures
    BY BrokerAssumption, ConsoleAssumption
  <2>2. Blank \in Result /\ {"idle", "loads"} \subseteq Place BY <2>1 DEF Blank, Result, Op, Place
  <2> SUFFICES ASSUME ConsoleInit PROVE ConsoleTypeOK OBVIOUS
  <2>3. at \in [Clients -> [Thread -> Place]]
    <3>1. \A t \in Thread : (IF t \in Windows THEN "loads" ELSE "idle") \in Place BY <2>2
    <3> QED BY <3>1 DEF ConsoleInit
  <2>4. task \in [Clients -> [Workers -> Result]] BY <2>2 DEF ConsoleInit
  <2> QED BY <2>1, <2>3, <2>4 DEF ConsoleInit, ConsoleTypeOK
<1>2. BrokerTypeOK /\ ConsoleTypeOK /\ [ConsoleNext]_vars => ConsoleTypeOK'
  BY ConsoleTypeNext
<1>3. BrokerTypeOK /\ ConsoleTypeOK => TypeOK
  BY DEF TypeOK
<1> QED BY <1>1, <1>2, <1>3, ConsoleUsesBroker, BrokerTypeCorrect, PTL DEF ConsoleSpec

-----------------------------------------------------------------------------
(***************************************************************************)
(* Where a reload is that was asked for, until the window has been given a *)
(* state that is new enough.  Every step moves it from one of these places *)
(* to the next, and the three in which it ends without success take the    *)
(* promise back.                                                           *)
(***************************************************************************)

\* A worker has its answer, or its error, and is yet to hand it on.
Fetched(c) ==
    \E w \in Workers :
        /\ at[c][w] \in {"answered", "freed"} /\ task[c][w].op = "load"
        /\ task[c][w].outcome = "answer" => task[c][w].state >= promised[c]

\* The mark is left, and will be read.
Waits(c) == pending[c] /\ MarkIsRead(c, Reader)

\* A thread is in load, or about to call it.
Called(c) ==
    \E t \in Workers \cup {Reader} :
        \/ at[c][t] \in {"marked", "loads", "marks"}
        \/ at[c][t] = "submits" /\ "load" \notin busy[c]

OnItsWay(c) ==
    newest[c] >= promised[c] \/ "load" \in asked[c] \/ Fetched(c) \/ Waits(c) \/ Called(c)

ReloadOnItsWay == \A c \in Clients : OnItsWay(c)

PromisedBefore == \A c \in Clients : promised[c] <= published

LEMMA ThreadsDiffer == Reader \notin Workers /\ Reader \in Thread /\ Workers \subseteq Thread
<1>1. PoolSize \in Nat BY ConsoleAssumption
<1>2. Workers \subseteq Nat BY <1>1 DEF Workers
<1> QED BY <1>2, ConsoleAssumption DEF Thread

\* Of client c only the place of thread t changes.
LEMMA GoesMoves ==
  ASSUME ConsoleTypeOK, NEW c \in Clients, NEW t \in Thread, NEW place, Goes(c, t, place)
  PROVE  at'[c][t] = place /\ \A u \in Thread \ {t} : at'[c][u] = at[c][u]
  BY DEF ConsoleTypeOK, Goes

\* What a step does to one console leaves the others on their way.
LEMMA OthersOnTheirWay ==
  ASSUME NEW d \in Clients, OnItsWay(d), newest'[d] = newest[d], promised'[d] = promised[d],
         pending'[d] = pending[d], busy'[d] = busy[d], asked'[d] = asked[d],
         at'[d] = at[d], task'[d] = task[d]
  PROVE  OnItsWay(d)'
  BY DEF OnItsWay, Fetched, Waits, Called, MarkIsRead

\* No step of a worker or of load promises more than before.
Promises(c) == \A d \in Clients : promised'[d] \in {promised[d], 0, published}

LEMMA LoadOnItsWay ==
  ASSUME BrokerTypeOK, ConsoleTypeOK, ReloadOnItsWay,
         NEW c \in Clients, NEW t \in Thread, LoadStep(c, t)
  PROVE  ReloadOnItsWay' /\ Promises(c)
<1> USE ThreadsDiffer
<1>0. /\ Promises(c)
      /\ \A d \in Clients \ {c} : OnItsWay(d)'
  BY OthersOnTheirWay
  DEF ConsoleTypeOK, ReloadOnItsWay, Promises, LoadStep, LoadSees, LoadMarks, LoadSubmits, Submit,
      Goes, shown, requests
<1>1. OnItsWay(c) BY DEF ReloadOnItsWay
<1>2. newest[c] \in Nat /\ promised[c] \in Nat BY BrokerAssumption DEF ConsoleTypeOK
<1>3. ASSUME LoadSees(c, t) PROVE OnItsWay(c)'
  <2>1. /\ at[c][t] = "loads" /\ at'[c][t] = IF "load" \in busy[c] THEN "marks" ELSE "submits"
        /\ \A u \in Thread \ {t} : at'[c][u] = at[c][u]
        /\ UNCHANGED <<newest, pending, busy, asked, task, promised>>
    BY <1>3, GoesMoves DEF LoadSees, shown, requests
  <2>2. CASE newest[c] >= promised[c] \/ "load" \in asked[c] BY <2>1, <2>2 DEF OnItsWay
  <2>3. CASE Fetched(c)
    <3>1. Fetched(c)' BY <2>1, <2>3 DEF Fetched
    <3> QED BY <3>1 DEF OnItsWay
  <2>4. CASE Waits(c)
    <3>1. Waits(c)' BY <2>1, <2>4 DEF Waits, MarkIsRead
    <3> QED BY <3>1 DEF OnItsWay
  <2>5. CASE Called(c)
    <3>1. Called(c)' BY <2>1, <2>5 DEF Called
    <3> QED BY <3>1 DEF OnItsWay
  <2> QED BY <1>1, <2>2, <2>3, <2>4, <2>5 DEF OnItsWay
<1>4. ASSUME LoadMarks(c, t) PROVE OnItsWay(c)'
  <2>1. /\ at[c][t] = "marks" /\ at'[c][t] = "idle"
        /\ \A u \in Thread \ {t} : at'[c][u] = at[c][u]
        /\ UNCHANGED <<newest, busy, asked, task>> /\ pending'[c]
        /\ promised'[c] = IF t \in Windows \/ MarkIsRead(c, t) THEN promised[c] ELSE 0
    BY <1>4, GoesMoves DEF LoadMarks, shown, requests, ConsoleTypeOK
  <2>2. CASE promised'[c] = 0
    BY <1>2, <2>1, <2>2 DEF OnItsWay
  <2>3. CASE MarkIsRead(c, t) /\ promised'[c] = promised[c]
    <3>1. Waits(c)' BY <2>1, <2>3 DEF Waits, MarkIsRead
    <3> QED BY <3>1 DEF OnItsWay
  <2>4. CASE t \in Windows /\ promised'[c] = promised[c]
    <3>1. t \notin Workers \cup {Reader}
      BY <2>4, ConsoleAssumption DEF Workers
    <3>2. CASE newest[c] >= promised[c] \/ "load" \in asked[c] BY <2>1, <2>4, <3>2 DEF OnItsWay
    <3>3. CASE Fetched(c)
      <4>1. Fetched(c)' BY <2>1, <2>4, <3>1, <3>3 DEF Fetched
      <4> QED BY <4>1 DEF OnItsWay
    <3>4. CASE Waits(c)
      <4>1. Waits(c)' BY <2>1, <3>1, <3>4 DEF Waits, MarkIsRead
      <4> QED BY <4>1 DEF OnItsWay
    <3>5. CASE Called(c)
      <4>1. Called(c)' BY <2>1, <3>1, <3>5 DEF Called
      <4> QED BY <4>1 DEF OnItsWay
    <3> QED BY <1>1, <3>2, <3>3, <3>4, <3>5 DEF OnItsWay
  <2> QED BY <2>1, <2>2, <2>3, <2>4
<1>5. ASSUME LoadSubmits(c, t) PROVE OnItsWay(c)'
  <2>1. /\ at[c][t] = "submits" /\ at'[c][t] = "idle"
        /\ \A u \in Thread \ {t} : at'[c][u] = at[c][u]
        /\ UNCHANGED <<newest, pending, task, promised>>
        /\ busy'[c] = busy[c] \cup {"load"}
        /\ asked'[c] = IF "load" \in busy[c] THEN asked[c] ELSE asked[c] \cup {"load"}
    BY <1>5, GoesMoves DEF LoadSubmits, Submit, shown, ConsoleTypeOK
  <2>2. CASE "load" \notin busy[c]
    BY <2>1, <2>2 DEF OnItsWay
  <2>3. CASE newest[c] >= promised[c] \/ "load" \in asked[c] BY <2>1, <2>3 DEF OnItsWay
  <2>4. CASE Fetched(c)
    <3>1. Fetched(c)' BY <2>1, <2>4 DEF Fetched
    <3> QED BY <3>1 DEF OnItsWay
  <2>5. CASE Waits(c)
    <3>1. Waits(c)' BY <2>1, <2>5 DEF Waits, MarkIsRead
    <3> QED BY <3>1 DEF OnItsWay
  <2>6. CASE Called(c) /\ "load" \in busy[c]
    <3>1. Called(c)' BY <2>1, <2>6 DEF Called
    <3> QED BY <3>1 DEF OnItsWay
  <2> QED BY <1>1, <2>2, <2>3, <2>4, <2>5, <2>6 DEF OnItsWay
<1>6. OnItsWay(c)' BY <1>3, <1>4, <1>5 DEF LoadStep
<1> QED BY <1>0, <1>6 DEF ReloadOnItsWay

LEMMA StreamOnItsWay ==
  ASSUME BrokerTypeOK, ConsoleTypeOK, ReloadOnItsWay, NEW c \in Clients, StreamStep(c) \/ ConsoleLoses(c)
  PROVE  ReloadOnItsWay' /\ Promises(c)
<1> USE ThreadsDiffer
<1>1. \A d \in Clients : OnItsWay(d) BY DEF ReloadOnItsWay
<1>2. CASE UNCHANGED consoleVars \/ ConsoleLoses(c)
  <2>1. UNCHANGED <<newest, promised, pending, busy, asked, at, task>>
    BY <1>2 DEF consoleVars, shown, requests, ConsoleLoses
  <2> QED BY <1>1, <2>1, OthersOnTheirWay DEF ReloadOnItsWay, Promises
<1>3. CASE ConsoleConnects(c)
  <2>1. CASE UNCHANGED <<at, promised>>
    <3>1. UNCHANGED <<newest, promised, pending, busy, asked, at, task>>
      BY <1>3, <2>1 DEF ConsoleConnects, shown, requests
    <3> QED BY <1>1, <3>1, OthersOnTheirWay DEF ReloadOnItsWay, Promises
  <2>2. CASE Goes(c, Reader, "loads") /\ promised' = [promised EXCEPT ![c] = published]
    <3>1. at'[c][Reader] = "loads" BY <2>2, GoesMoves
    <3>2. OnItsWay(c)' BY <3>1 DEF OnItsWay, Called
    <3>3. Promises(c) /\ \A d \in Clients \ {c} : OnItsWay(d)'
      BY <1>1, <1>3, <2>2, OthersOnTheirWay DEF ConsoleConnects, shown, requests, Goes, ConsoleTypeOK, Promises
    <3> QED BY <3>2, <3>3 DEF ReloadOnItsWay
  <2> QED BY <1>3, <2>1, <2>2 DEF ConsoleConnects
<1>4. CASE ConsoleReads(c)
  <2> DEFINE line == Head(wire[c])
  <2>1. line # Resync => line \in Nat
    <3>1. wire[c] \in Seq(Entries) BY ClientTyped
    <3>2. wire[c] # <<>> BY <1>4 DEF ConsoleReads, ReadNext, Readable
    <3> QED BY <3>1, <3>2, BrokerAssumption DEF Entries
  <2>2. /\ \/ UNCHANGED shown /\ UNCHANGED requests
           \/ line # Resync /\ Shows(c, line) /\ UNCHANGED requests
           \/ ShowsUndated(c) /\ UNCHANGED requests
           \/ UNCHANGED shown /\ Submit(c, "session-status")
        /\ UNCHANGED <<pending, at, promised>>
    BY <1>4 DEF ConsoleReads
  <2> HIDE DEF line
  <2>3. \A d \in Clients \ {c} : OnItsWay(d)'
    BY <1>1, <2>2, OthersOnTheirWay DEF Shows, ShowsUndated, Submit, shown, requests, ConsoleTypeOK
  <2>4. newest[c] \in Nat /\ promised[c] \in Nat BY BrokerAssumption DEF ConsoleTypeOK
  <2>5. newest'[c] >= newest[c] /\ newest'[c] \in Nat
    BY <2>1, <2>2, <2>4 DEF Shows, ShowsUndated, shown, ConsoleTypeOK
  <2>6. /\ task'[c] = task[c]
        /\ "load" \in busy[c] <=> "load" \in busy'[c]
        /\ "load" \in asked[c] => "load" \in asked'[c]
    BY <2>2 DEF Submit, requests, ConsoleTypeOK
  <2>7. OnItsWay(c)'
    <3>1. CASE newest[c] >= promised[c] \/ "load" \in asked[c]
      BY <2>2, <2>4, <2>5, <2>6, <3>1 DEF OnItsWay
    <3>2. CASE Fetched(c)
      <4>1. Fetched(c)' BY <2>2, <2>6, <3>2 DEF Fetched
      <4> QED BY <4>1 DEF OnItsWay
    <3>3. CASE Waits(c)
      <4>1. Waits(c)' BY <2>2, <2>6, <3>3 DEF Waits, MarkIsRead
      <4> QED BY <4>1 DEF OnItsWay
    <3>4. CASE Called(c)
      <4>1. Called(c)' BY <2>2, <2>6, <3>4 DEF Called
      <4> QED BY <4>1 DEF OnItsWay
    <3> QED BY <1>1, <3>1, <3>2, <3>3, <3>4 DEF OnItsWay
  <2> QED BY <2>2, <2>3, <2>7 DEF ReloadOnItsWay, Promises
<1> QED BY <1>2, <1>3, <1>4 DEF StreamStep, ConsoleFinishes

LEMMA WorkerOnItsWay ==
  ASSUME BrokerTypeOK, ConsoleTypeOK, PromisedBefore, ReloadOnItsWay, NEW c \in Clients, NEW w \in Workers,
         WorkerStep(c, w) \/ \E op \in Op : Fails(c, w, op)
  PROVE  ReloadOnItsWay' /\ Promises(c)
<1> USE ThreadsDiffer
<1>0. /\ Promises(c)
      /\ \A d \in Clients \ {c} : OnItsWay(d)'
  BY OthersOnTheirWay
  DEF ConsoleTypeOK, ReloadOnItsWay, Promises, WorkerStep, Answers, Fails, Takes, Frees, Handles, ReadsMark,
      ClearsMark, Goes, Shows, shown, requests
<1>1. OnItsWay(c) BY DEF ReloadOnItsWay
<1>2. /\ newest[c] \in Nat /\ promised[c] \in Nat /\ promised[c] <= published /\ task[c][w] \in Result
      /\ published \in Nat
  BY BrokerAssumption DEF ConsoleTypeOK, PromisedBefore, BrokerTypeOK
<1>3. ASSUME NEW op \in Op, NEW result, Takes(c, w, op, result), result.op = op,
             result.outcome = "answer" => result.state >= promised[c]
      PROVE  OnItsWay(c)'
  <2>1. /\ at[c][w] = "idle" /\ at'[c][w] = "answered"
        /\ \A u \in Thread \ {w} : at'[c][u] = at[c][u]
        /\ asked'[c] = asked[c] \ {op}
        /\ task'[c][w] = result /\ \A v \in Workers \ {w} : task'[c][v] = task[c][v]
        /\ UNCHANGED <<newest, pending, busy, promised>>
    BY <1>3, GoesMoves DEF Takes, shown, ConsoleTypeOK
  <2>2. CASE op = "load"
    <3>1. Fetched(c)' BY <1>3, <2>1, <2>2 DEF Fetched
    <3> QED BY <3>1 DEF OnItsWay
  <2>3. CASE newest[c] >= promised[c] \/ ("load" \in asked[c] /\ op # "load")
    BY <2>1, <2>3 DEF OnItsWay
  <2>4. CASE Fetched(c)
    <3>1. Fetched(c)' BY <2>1, <2>4 DEF Fetched
    <3> QED BY <3>1 DEF OnItsWay
  <2>5. CASE Waits(c)
    <3>1. Waits(c)' BY <2>1, <2>5 DEF Waits, MarkIsRead
    <3> QED BY <3>1 DEF OnItsWay
  <2>6. CASE Called(c)
    <3>1. Called(c)' BY <2>1, <2>6 DEF Called
    <3> QED BY <3>1 DEF OnItsWay
  <2> QED BY <1>1, <2>2, <2>3, <2>4, <2>5, <2>6 DEF OnItsWay
<1>4. ASSUME NEW op \in Op, Answers(c, w, op) PROVE OnItsWay(c)'
  BY <1>2, <1>3, <1>4 DEF Answers
<1>5. ASSUME NEW op \in Op, Fails(c, w, op) PROVE OnItsWay(c)'
  BY <1>3, <1>5 DEF Fails
<1>6. ASSUME Frees(c, w) PROVE OnItsWay(c)'
  <2>1. /\ at[c][w] = "answered" /\ at'[c][w] = "freed"
        /\ \A u \in Thread \ {w} : at'[c][u] = at[c][u]
        /\ busy'[c] = busy[c] \ {task[c][w].op}
        /\ UNCHANGED <<newest, pending, asked, task, promised>>
    BY <1>6, GoesMoves DEF Frees, shown, ConsoleTypeOK
  <2>2. CASE newest[c] >= promised[c] \/ "load" \in asked[c] BY <2>1, <2>2 DEF OnItsWay
  <2>3. CASE Fetched(c)
    <3>1. Fetched(c)' BY <2>1, <2>3 DEF Fetched
    <3> QED BY <3>1 DEF OnItsWay
  <2>4. CASE Waits(c)
    <3>1. MarkIsRead(c, Reader)' BY <2>1, <2>4 DEF Waits, MarkIsRead
    <3>2. Waits(c)' BY <2>1, <2>4, <3>1 DEF Waits
    <3> QED BY <3>2 DEF OnItsWay
  <2>5. CASE Called(c)
    <3>1. Called(c)' BY <2>1, <2>5 DEF Called
    <3> QED BY <3>1 DEF OnItsWay
  <2> QED BY <1>1, <2>2, <2>3, <2>4, <2>5 DEF OnItsWay
<1>7. ASSUME Handles(c, w) PROVE OnItsWay(c)'
  <2> DEFINE result == task[c][w]
             isLoad == result.op = "load"
             fetched == result.outcome = "answer"
  <2>1. /\ at[c][w] = "freed" /\ at'[c][w] = IF isLoad THEN "handled" ELSE "idle"
        /\ \A u \in Thread \ {w} : at'[c][u] = at[c][u]
        /\ \A v \in Workers \ {w} : task'[c][v] = task[c][v]
        /\ IF fetched THEN Shows(c, result.state) ELSE UNCHANGED shown
        /\ promised'[c] = IF isLoad /\ ~fetched /\ ~pending[c] THEN 0 ELSE promised[c]
        /\ UNCHANGED <<pending, busy, asked>>
    BY <1>7, GoesMoves DEF Handles, ConsoleTypeOK
  <2>2. result.state \in Nat BY <1>2, BrokerAssumption DEF Result
  <2>3. newest'[c] >= newest[c] /\ newest'[c] \in Nat /\ (fetched => newest'[c] >= result.state)
    BY <1>2, <2>1, <2>2 DEF Shows, shown, ConsoleTypeOK
  <2> HIDE DEF result, isLoad, fetched
  <2>4. CASE promised'[c] = 0
    BY <2>3, <2>4 DEF OnItsWay
  <2>5. CASE promised'[c] = promised[c] /\ newest[c] >= promised[c]
    BY <1>2, <2>3, <2>5 DEF OnItsWay
  <2>6. CASE "load" \in asked[c]
    BY <2>1, <2>6 DEF OnItsWay
  <2>7. CASE promised'[c] = promised[c] /\ isLoad /\ fetched /\ result.state >= promised[c]
    BY <1>2, <2>2, <2>3, <2>7 DEF OnItsWay
  <2>8. CASE promised'[c] = promised[c] /\ isLoad /\ pending[c]
    <3>1. Waits(c)' BY <2>1, <2>8 DEF Waits, MarkIsRead
    <3> QED BY <3>1 DEF OnItsWay
  <2>9. CASE /\ promised'[c] = promised[c] /\ Fetched(c)
             /\ ~(isLoad /\ (fetched => result.state >= promised[c]))
    <3>1. Fetched(c)' BY <2>1, <2>9 DEF Fetched, result, isLoad, fetched
    <3> QED BY <3>1 DEF OnItsWay
  <2>10. CASE Waits(c)
    <3>1. Waits(c)' BY <2>1, <2>10 DEF Waits, MarkIsRead, isLoad, result
    <3> QED BY <3>1 DEF OnItsWay
  <2>11. CASE Called(c)
    <3>1. Called(c)' BY <2>1, <2>11 DEF Called
    <3> QED BY <3>1 DEF OnItsWay
  <2> QED BY <1>1, <2>1, <2>4, <2>5, <2>6, <2>7, <2>8, <2>9, <2>10, <2>11 DEF OnItsWay
<1>8. ASSUME ReadsMark(c, w) PROVE OnItsWay(c)'
  <2>1. /\ at[c][w] = "handled" /\ at'[c][w] = IF pending[c] THEN "marked" ELSE "idle"
        /\ \A u \in Thread \ {w} : at'[c][u] = at[c][u]
        /\ UNCHANGED <<newest, pending, busy, asked, task, promised>>
    BY <1>8, GoesMoves DEF ReadsMark, shown, requests
  <2>2. CASE newest[c] >= promised[c] \/ "load" \in asked[c] BY <2>1, <2>2 DEF OnItsWay
  <2>3. CASE Fetched(c)
    <3>1. Fetched(c)' BY <2>1, <2>3 DEF Fetched
    <3> QED BY <3>1 DEF OnItsWay
  <2>4. CASE Waits(c)
    <3>1. Waits(c)' BY <2>1, <2>4 DEF Waits, MarkIsRead
    <3> QED BY <3>1 DEF OnItsWay
  <2>5. CASE Called(c)
    <3>1. Called(c)' BY <2>1, <2>5 DEF Called
    <3> QED BY <3>1 DEF OnItsWay
  <2> QED BY <1>1, <2>2, <2>3, <2>4, <2>5 DEF OnItsWay
<1>9. ASSUME ClearsMark(c, w) PROVE OnItsWay(c)'
  <2>1. /\ at'[c][w] = IF coreConnected[c] THEN "loads" ELSE "idle"
        /\ promised'[c] = IF coreConnected[c] THEN promised[c] ELSE 0
        /\ newest' = newest
    BY <1>9, GoesMoves DEF ClearsMark, shown, ConsoleTypeOK
  <2>2. CASE coreConnected[c]
    <3>1. Called(c)' BY <2>1, <2>2 DEF Called
    <3> QED BY <3>1 DEF OnItsWay
  <2>3. CASE ~coreConnected[c]
    BY <1>2, <2>1, <2>3 DEF OnItsWay
  <2> QED BY <2>2, <2>3
<1>10. OnItsWay(c)' BY <1>4, <1>5, <1>6, <1>7, <1>8, <1>9 DEF WorkerStep
<1> QED BY <1>0, <1>10 DEF ReloadOnItsWay

\* Once the stream is back, a state no older than the one at that time is in the
\* window's hands, in an answer, marked as owed to a completion that will see the mark,
\* or in load, wherever the window's thread, the reader and the workers are in load and
\* completed: a reload ends early only where promised is set to 0 (_bootstrap_pending,
\* completed and _session_changed).
THEOREM ReloadCorrect == ConsoleSpec => []ReloadOnItsWay
<1> DEFINE J == PromisedBefore /\ ReloadOnItsWay
<1>1. ConsoleInit => J
  BY BrokerAssumption DEF ConsoleInit, Init, PromisedBefore, ReloadOnItsWay, OnItsWay
<1>2. TypeOK /\ TypeOK' /\ J /\ [ConsoleNext]_vars => J'
  <2> SUFFICES ASSUME TypeOK, TypeOK', J, [ConsoleNext]_vars PROVE J'
    OBVIOUS
  <2>1. /\ published \in Nat /\ published' \in Nat
        /\ \A c \in Clients : promised[c] \in Nat /\ promised'[c] \in Nat
    BY BrokerAssumption DEF TypeOK, BrokerTypeOK, ConsoleTypeOK
  <2>2. published <= published'
    <3>1. published' = published + 1 \/ published' = published
      <4>1. CASE UNCHANGED brokerVars BY <4>1 DEF brokerVars
      <4>2. CASE Next BY <4>2 DEF Next, StreamNext, Publish, Connect, ServeNext, SendReplay, SendLive,
                                  ReadNext, Read, Finish, Lose
      <4>3. Next \/ UNCHANGED brokerVars
        BY ConsoleStepIsBroker
      <4> QED BY <4>1, <4>2, <4>3
    <3> QED BY <2>1, <3>1
  <2>3. CASE UNCHANGED consoleVars
    <3>1. \A c \in Clients : OnItsWay(c)'
      BY <2>3, OthersOnTheirWay DEF ReloadOnItsWay, consoleVars, shown, requests
    <3>2. promised' = promised BY <2>3 DEF consoleVars
    <3> QED BY <2>1, <2>2, <3>1, <3>2 DEF ReloadOnItsWay, PromisedBefore
  <2>4. CASE ReloadOnItsWay' /\ \E c \in Clients : Promises(c)
    BY <2>1, <2>2, <2>4 DEF PromisedBefore, Promises
  <2>5. UNCHANGED consoleVars \/ (ReloadOnItsWay' /\ \E c \in Clients : Promises(c))
    BY LoadOnItsWay, StreamOnItsWay, WorkerOnItsWay DEF ConsoleNext, vars, TypeOK
  <2> QED BY <2>3, <2>4, <2>5
<1> QED BY <1>1, <1>2, ConsoleTypeCorrect, PTL DEF ConsoleSpec
=============================================================================
