------------------------------ MODULE AdminConsole ------------------------------
(***************************************************************************)
(* The operator's console (streaming_admin) on top of the event stream:    *)
(* StreamPreparationController fetches the session when an event tells it  *)
(* to, and reloads everything when the stream comes back.                  *)
(*                                                                         *)
(* The session changes with each event, so its state is the number of the  *)
(* last one.  load and completed hold no lock from end to end, so the      *)
(* threads that run them are each at a place in them: the reader of the    *)
(* stream, the window's (which loads once, when it is built) and the       *)
(* workers of the pool, in whose hands a completed load may load again.    *)
(* session-status stands for the requests of every other operation.        *)
(*                                                                         *)
(* Qt hands the emitted states to the window one by one, in the order they *)
(* were emitted, and only the window reads what it shows: a state is shown *)
(* as it is emitted.  A callback the pool runs in the submitting thread,   *)
(* for a request done already, is one that thread waits for.               *)
(***************************************************************************)
EXTENDS EventBroker

CONSTANTS
    PoolSize,       \* threads of _pool (max_workers)
    Reader,         \* the thread of EventStreamClient.run
    Windows,        \* the thread that builds the window
    Snapshots,      \* events that carry the state (stream_preparation.completed, .failed)
    Undated,        \* events shown as one, without observed_at (.started, .check_updated)
    MaxFailures     \* bound: requests that fail

ASSUME ConsoleAssumption ==
    /\ Snapshots \subseteq Nat /\ Undated \subseteq Nat /\ MaxFailures \in Nat
    /\ PoolSize \in Nat \ {0} /\ Reader \notin Nat \cup Windows /\ Windows \cap Nat = {}

VARIABLES
    view,           \* _current_session; None: without a known state
    newest,         \* _last_snapshot_at
    sseConnected,   \* _sse_connected
    coreConnected,  \* _core_connected
    pending,        \* _bootstrap_pending
    busy,           \* _busy
    asked,          \* operations submitted to the pool and not answered yet
    at,             \* where each thread is in load or completed
    task,           \* what the worker's request came to
    promised,       \* history: the newest state when a reload was last asked for
    failures

shown == <<view, newest>>
requests == <<busy, asked, task>>
consoleVars == <<shown, sseConnected, coreConnected, pending, requests, at, promised, failures>>
vars == <<brokerVars, consoleVars>>

Op == {"load", "session-status"}
Workers == 1..PoolSize
Thread == Workers \cup {Reader} \cup Windows
Blank == [op |-> "load", outcome |-> "raised", state |-> 0]

ConsoleInit ==
    /\ Init
    /\ view = [c \in Clients |-> None] /\ newest = [c \in Clients |-> 0]
    /\ sseConnected = [c \in Clients |-> FALSE]
    /\ coreConnected = [c \in Clients |-> FALSE]
    /\ pending = [c \in Clients |-> FALSE]
    /\ busy = [c \in Clients |-> {}] /\ asked = [c \in Clients |-> {}]
    /\ at = [c \in Clients |-> [t \in Thread |-> IF t \in Windows THEN "loads" ELSE "idle"]]
    /\ task = [c \in Clients |-> [w \in Workers |-> Blank]]
    /\ promised = [c \in Clients |-> 0]
    /\ failures = 0

Goes(c, t, place) == at' = [at EXCEPT ![c][t] = place]

-----------------------------------------------------------------------------
\* _submit: an operation that is busy is not submitted again.
Submit(c, op) ==
    /\ busy' = [busy EXCEPT ![c] = @ \cup {op}]
    /\ asked' = [asked EXCEPT ![c] = IF op \in busy[c] THEN @ ELSE @ \cup {op}]
    /\ UNCHANGED task

\* _session_changed of a state with observed_at: an older one is not shown.
Shows(c, state) ==
    /\ newest' = [newest EXCEPT ![c] = IF state < @ THEN @ ELSE state]
    /\ view' = [view EXCEPT ![c] = IF state < newest[c] THEN @ ELSE state]

\* _session_changed of one without: shown, whatever is shown already.
ShowsUndated(c) == view' = [view EXCEPT ![c] = None] /\ UNCHANGED newest

-----------------------------------------------------------------------------
\* load: _busy is read, and the mark left or _submit called, in two steps.
LoadSees(c, t) ==
    /\ at[c][t] = "loads"
    /\ Goes(c, t, IF "load" \in busy[c] THEN "marks" ELSE "submits")
    /\ UNCHANGED <<brokerVars, shown, sseConnected, coreConnected, pending, requests, promised, failures>>

\* Somebody but t is yet to read the mark, or has read it and is yet to clear it.
MarkIsRead(c, t) ==
    \/ "load" \in busy[c]
    \/ \E w \in Workers \ {t} :
        \/ at[c][w] = "freed" /\ task[c][w].op = "load"
        \/ at[c][w] \in {"handled", "marked"}

\* Mutant: a load that finds one busy leaves no mark.
MarksNothing(c, t) ==
    /\ at[c][t] = "marks" /\ Goes(c, t, "idle")
    /\ promised' = [promised EXCEPT ![c] = IF t \in Windows \/ MarkIsRead(c, t) THEN @ ELSE 0]
    /\ UNCHANGED <<brokerVars, shown, sseConnected, coreConnected, pending, requests, failures>>

\* The mark comes too late when the load that was busy has been completed: then the
\* reload is lost.
LoadMarks(c, t) ==
    /\ at[c][t] = "marks" /\ Goes(c, t, "idle")
    /\ pending' = [pending EXCEPT ![c] = TRUE]
    /\ promised' = [promised EXCEPT ![c] = IF t \in Windows \/ MarkIsRead(c, t) THEN @ ELSE 0]
    /\ UNCHANGED <<brokerVars, shown, sseConnected, coreConnected, requests, failures>>

LoadSubmits(c, t) ==
    /\ at[c][t] = "submits" /\ Goes(c, t, "idle")
    /\ Submit(c, "load")
    /\ UNCHANGED <<brokerVars, shown, sseConnected, coreConnected, pending, promised, failures>>

LoadStep(c, t) == LoadSees(c, t) \/ LoadMarks(c, t) \/ LoadSubmits(c, t)

-----------------------------------------------------------------------------
\* The reader of the stream reads on when load has returned.
Reading(c) == at[c][Reader] = "idle"

\* core_connection_changed(True)
ConsoleConnects(c) ==
    /\ Reading(c) /\ Connect(c)
    /\ sseConnected' = [sseConnected EXCEPT ![c] = TRUE]
    /\ IF sseConnected[c] THEN UNCHANGED <<at, promised>>
       ELSE Goes(c, Reader, "loads") /\ promised' = [promised EXCEPT ![c] = published]
    /\ UNCHANGED <<shown, coreConnected, pending, requests, failures>>

\* core_connection_changed(False)
ConsoleLoses(c) ==
    /\ Reading(c) /\ Lose(c)
    /\ sseConnected' = [sseConnected EXCEPT ![c] = FALSE]
    /\ UNCHANGED <<shown, coreConnected, pending, requests, at, promised, failures>>

\* handle_event: an event of the preparation is shown, another has the state
\* fetched, and a marker does neither.
ConsoleReads(c) ==
    LET line == Head(wire[c])
        isNew == line # Resync /\ line \notin seen[c]
    IN  /\ Reading(c) /\ ReadNext(c)
        /\ IF ~isNew THEN UNCHANGED <<shown, requests>>
           ELSE IF line \in Snapshots THEN Shows(c, line) /\ UNCHANGED requests
           ELSE IF line \in Undated THEN ShowsUndated(c) /\ UNCHANGED requests
           ELSE Submit(c, "session-status") /\ UNCHANGED shown
        /\ UNCHANGED <<sseConnected, coreConnected, pending, at, promised, failures>>

ConsoleFinishes(c) == Reading(c) /\ Finish(c) /\ UNCHANGED consoleVars

-----------------------------------------------------------------------------
\* A worker takes a request, which comes to result.  The idle workers are alike: the
\* first of them does.
Takes(c, w, op, result) ==
    /\ at[c][w] = "idle" /\ op \in asked[c]
    /\ \A v \in 1..w - 1 : at[c][v] # "idle"
    /\ Goes(c, w, "answered")
    /\ asked' = [asked EXCEPT ![c] = @ \ {op}]
    /\ task' = [task EXCEPT ![c][w] = result]
    /\ UNCHANGED <<brokerVars, shown, sseConnected, coreConnected, pending, busy, promised>>

\* The main loop answers with the state of that moment.
Answers(c, w, op) ==
    /\ Takes(c, w, op, [op |-> op, outcome |-> "answer", state |-> published])
    /\ UNCHANGED failures

\* runtime.unavailable, another CoreApiError, or an exception of another kind.
Fails(c, w, op) ==
    /\ failures < MaxFailures /\ failures' = failures + 1
    /\ \E outcome \in {"unavailable", "refused", "raised"} :
        Takes(c, w, op, [op |-> op, outcome |-> outcome, state |-> 0])

\* completed, from here on in steps: the operation is busy no more
Frees(c, w) ==
    /\ at[c][w] = "answered" /\ Goes(c, w, "freed")
    /\ busy' = [busy EXCEPT ![c] = @ \ {task[c][w].op}]
    /\ UNCHANGED <<brokerVars, shown, sseConnected, coreConnected, pending, asked, task, promised, failures>>

\* the answer is emitted, or the error.  A load that failed is made up for only if
\* one had to wait.
Handles(c, w) ==
    LET result == task[c][w]
        fetched == result.outcome = "answer"
        isLoad == result.op = "load"
    IN  /\ at[c][w] = "freed" /\ Goes(c, w, IF isLoad THEN "handled" ELSE "idle")
        /\ coreConnected' = [coreConnected EXCEPT ![c] =
               IF result.outcome = "raised" THEN @ ELSE result.outcome # "unavailable"]
        /\ IF fetched THEN Shows(c, result.state) ELSE UNCHANGED shown
        /\ promised' = [promised EXCEPT ![c] = IF isLoad /\ ~fetched /\ ~pending[c] THEN 0 ELSE @]
        /\ task' = [task EXCEPT ![c][w] = Blank]
        /\ UNCHANGED <<brokerVars, sseConnected, pending, busy, asked, failures>>

\* after a load, the mark is read
ReadsMark(c, w) ==
    /\ at[c][w] = "handled" /\ Goes(c, w, IF pending[c] THEN "marked" ELSE "idle")
    /\ UNCHANGED <<brokerVars, shown, sseConnected, coreConnected, pending, requests, promised, failures>>

\* and cleared, and the load that had to wait is called, or given up when the core is
\* thought to be gone.
ClearsMark(c, w) ==
    /\ at[c][w] = "marked" /\ Goes(c, w, IF coreConnected[c] THEN "loads" ELSE "idle")
    /\ pending' = [pending EXCEPT ![c] = FALSE]
    /\ promised' = [promised EXCEPT ![c] = IF coreConnected[c] THEN @ ELSE 0]
    /\ UNCHANGED <<brokerVars, shown, sseConnected, coreConnected, requests, failures>>

-----------------------------------------------------------------------------
StreamStep(c) ==
    \/ ConsoleConnects(c) \/ ConsoleReads(c) \/ ConsoleFinishes(c)
    \/ ServeNext(c) /\ UNCHANGED consoleVars

WorkerStep(c, w) ==
    \/ \E op \in Op : Answers(c, w, op)
    \/ Frees(c, w) \/ Handles(c, w) \/ ReadsMark(c, w) \/ ClearsMark(c, w)

ConsoleNext ==
    \/ Publish /\ UNCHANGED consoleVars
    \/ \E c \in Clients :
        \/ StreamStep(c) \/ ConsoleLoses(c)
        \/ \E t \in Thread : LoadStep(c, t)
        \/ \E w \in Workers : WorkerStep(c, w) \/ \E op \in Op : Fails(c, w, op)

\* As in EventBroker, and every thread of the console runs.
ConsoleFairness ==
    \A c \in Clients :
        /\ WF_vars(StreamStep(c))
        /\ \A t \in Thread : WF_vars(LoadStep(c, t))
        /\ \A w \in Workers : WF_vars(WorkerStep(c, w))

ConsoleSpec == ConsoleInit /\ [][ConsoleNext]_vars
FairConsoleSpec == ConsoleSpec /\ ConsoleFairness
-----------------------------------------------------------------------------
Place == {"idle", "loads", "marks", "submits", "answered", "freed", "handled", "marked"}
Result == [op : Op, outcome : {"answer", "unavailable", "refused", "raised"}, state : 0..MaxEvents]

\* Type invariant.
ConsoleTypeOK ==
    /\ view \in [Clients -> 0..MaxEvents \cup {None}] /\ newest \in [Clients -> 0..MaxEvents]
    /\ promised \in [Clients -> 0..MaxEvents]
    /\ {sseConnected, coreConnected, pending} \subseteq [Clients -> BOOLEAN]
    /\ {busy, asked} \subseteq [Clients -> SUBSET Op]
    /\ at \in [Clients -> [Thread -> Place]]
    /\ task \in [Clients -> [Workers -> Result]]
    /\ failures \in 0..MaxFailures

TypeOK == BrokerTypeOK /\ ConsoleTypeOK

\* refresh_after_core_connected ("Reload every bootstrap resource needed by the
\* current screen"): once the stream is back, the window is given a state no older
\* than the one at that time, also when a load was under way that had read before,
\* whatever older states arrive late, and however the threads meet in load and
\* completed; and then it shows its newest state, or an event without one.  Three
\* ends of a reload are left out, where promised is set to 0: it fails and no other
\* waits, the core is thought to be gone when its turn comes, or its mark comes after
\* the completion it was meant for.
ReconnectReloads ==
    \A c \in Clients : []<>(newest[c] >= promised[c] /\ view[c] \in {newest[c], None})

================================================================================
