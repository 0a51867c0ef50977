----------------------------- MODULE RunManager -----------------------------
(***************************************************************************)
(* RunManager (core/runs.py) with the execution body and the SSE endpoints *)
(* that use it (api/routes.py: _execute_run, _start_run, _subscribe_sse,   *)
(* chat, chat_stream, attach_stream): background runs of a conversation,   *)
(* their registration, supervision, cancellation and retention, and the    *)
(* clients that start, watch, leave and come back.                         *)
(*                                                                         *)
(* Everything runs on one event loop, so an action is the code from one    *)
(* suspension to the next.  publish() and publish_end() never suspend in   *)
(* practice (nobody holds a stream's lock across an await), so they belong *)
(* to the step that calls them.  What one stream does with its buffer is   *)
(* StreamBridge's subject; here a stream is the log of event names.        *)
(***************************************************************************)
EXTENDS Integers, Sequences, FiniteSets

CONSTANTS
    Conversations,
    Requests,      \* request_id values of chat turns
    RunIds,        \* bound: the runs the manager may ever create
    Clients,       \* HTTP clients
    Window,        \* buffer_size: the events a stream retains
    Outcomes,      \* what _run_status may return at the end of a graph run
    MaxProgress,   \* bound: progress and answer events of a run
    None

ASSUME ConstantsAssumption ==
    /\ MaxProgress \in Nat
    /\ Window \in Nat \ {0}
    /\ Outcomes \subseteq {"completed", "interrupted", "failed"}
    /\ None \notin Requests \union RunIds \union Clients \union Conversations

VARIABLES
    run,           \* the Run objects: function from RunIds
    registry,      \* keys of _runs
    byConv,        \* _by_conversation
    stream,        \* _streams: which stream object a run id maps to
    log,           \* events of the stream object the run publishes to
    ended,         \* and whether publish_end() has been called on it
    cleanup,       \* runs whose _cleanup_later task sleeps
    closing,       \* aclose(): "open", "cancelling", "closed"
    client         \* what each client's connection is doing

vars == <<run, registry, byConv, stream, log, ended, cleanup, closing, client>>
clientless == <<run, registry, byConv, stream, log, ended, cleanup, closing>>

Statuses == {"running", "completed", "interrupted", "failed", "cancelled"}

\* Where a run's task is suspended: not created yet; created but never
\* scheduled; inside the graph; reading the final snapshot; reading the
\* snapshot of a failed run; in _record_usage after the outcome is known; in
\* _record_usage while a cancellation unwinds; finished.
Points == {"unused", "created", "executing", "snapshotting", "failing",
           "recording", "unwinding", "done"}

\* How a stream may end, and the status a run ends in with each last event.
Terminal == {"done", "error", "cancelled"}
Verdicts == [done |-> Outcomes, error |-> {"failed"}, cancelled |-> {"cancelled"}]
Kinds == {"metadata", "progress"} \union Terminal

NoRun == [conv |-> None, request |-> None, mode |-> "continue",
          status |-> "running", at |-> "unused", outcome |-> "running",
          cancelling |-> FALSE]

\* at: "idle"; "opening": the response is on its way, the SSE generator has
\* not started; "reading"; "waiting": POST /chat waits for the task.
NoConnection == [at |-> "idle", run |-> None, object |-> "none",
                 cursor |-> 0, owner |-> FALSE]

Alive(r) == run[r].at \notin {"unused", "done"}

\* The client has been told, last of all, that the run ends in this status.
Told(r, status) ==
    /\ log[r] # <<>> /\ log[r][Len(log[r])] \in Terminal
    /\ status \in Verdicts[log[r][Len(log[r])]]

-----------------------------------------------------------------------------
Init ==
    /\ run = [r \in RunIds |-> NoRun]
    /\ registry = {}
    /\ byConv = [c \in Conversations |-> None]
    /\ stream = [r \in RunIds |-> "none"]
    /\ log = [r \in RunIds |-> <<>>]
    /\ ended = [r \in RunIds |-> FALSE]
    /\ cleanup = {}
    /\ closing = "open"
    /\ client = [k \in Clients |-> NoConnection]

\* latest(): the conversation's last run, while it is registered.
Latest(c) == IF byConv[c] \in registry THEN byConv[c] ELSE None

\* active(): that run if its status is still `running`.
Active(c) ==
    LET r == Latest(c)
    IN  IF r # None /\ run[r].status = "running" THEN r ELSE None

\* publish(): creates the stream object on first use.
Published(r, kind) == [log EXCEPT ![r] = Append(@, kind)]
Opened(r) == IF stream[r] = "none" THEN [stream EXCEPT ![r] = "first"]
             ELSE stream

\* A client's connection, replaced.
Connect(k, connection) ==
    client' = [client EXCEPT ![k] = connection]

Leading(r, mode, owner) ==
    [at |-> mode, run |-> r, object |-> "none", cursor |-> 0, owner |-> owner]

-----------------------------------------------------------------------------
(* Starting a run *)

Fresh == {r \in RunIds : run[r].at = "unused"}

\* start() for a conversation with no active run: register and create the
\* task, in one go.  `how` tells POST /chat and /confirm ("waiting") from their
\* /stream forms ("opening"); a confirmation carries no request id.
StartNew(k, c, q, mode, how) ==
    /\ closing = "open"
    /\ Active(c) = None
    /\ client[k].at = "idle"
    /\ Fresh # {}
    /\ LET r == CHOOSE x \in Fresh : TRUE
       IN  /\ run' = [run EXCEPT ![r] = [NoRun EXCEPT !.conv = c, !.request = q,
                                            !.mode = mode, !.at = "created"]]
           /\ registry' = registry \union {r}
           /\ byConv' = [byConv EXCEPT ![c] = r]
           /\ Connect(k, Leading(r, how, TRUE))
    /\ UNCHANGED <<stream, log, ended, cleanup, closing>>

\* start() with the request id of the active run: the same run is returned.
\* Any other request for the conversation is refused (RunConflictError).
StartAgain(k, c, q, how) ==
    /\ closing = "open"
    /\ Active(c) # None
    /\ q # None /\ run[Active(c)].request = q
    /\ client[k].at = "idle"
    /\ Connect(k, Leading(Active(c), how, TRUE))
    /\ UNCHANGED clientless

-----------------------------------------------------------------------------
(* The task: _supervise around _execute_run *)

\* The first step publishes `metadata` and enters the graph.
Begin(r) ==
    /\ run[r].at = "created" /\ ~run[r].cancelling
    /\ run' = [run EXCEPT ![r].at = "executing"]
    /\ stream' = Opened(r)
    /\ log' = Published(r, "metadata")
    /\ UNCHANGED <<registry, byConv, ended, cleanup, closing, client>>

\* The graph streams a part that is worth an event.  Bound: only the first run
\* does, while it is the only one.
Progress(r) ==
    /\ run[r].at = "executing" /\ ~run[r].cancelling
    /\ Len(log[r]) <= MaxProgress /\ Cardinality(RunIds \ Fresh) = 1
    /\ log' = Published(r, "progress")
    /\ UNCHANGED <<run, registry, byConv, stream, ended, cleanup, closing, client>>

\* The graph has run to its end or to an interrupt: read the final snapshot.
GraphEnds(r) ==
    /\ run[r].at = "executing" /\ ~run[r].cancelling
    /\ run' = [run EXCEPT ![r].at = "snapshotting"]
    /\ UNCHANGED <<registry, byConv, stream, log, ended, cleanup, closing, client>>

\* The graph or the read of the final snapshot raises.
ExecutionFails(r) ==
    /\ run[r].at \in {"executing", "snapshotting"} /\ ~run[r].cancelling
    /\ run' = [run EXCEPT ![r].at = "failing"]
    /\ UNCHANGED <<registry, byConv, stream, log, ended, cleanup, closing, client>>

\* `done` goes out, then _record_usage awaits Redis.
PublishDone(r) ==
    /\ run[r].at = "snapshotting" /\ ~run[r].cancelling
    /\ \E outcome \in Outcomes :
        run' = [run EXCEPT ![r].at = "recording", ![r].outcome = outcome]
    /\ log' = Published(r, "done")
    /\ UNCHANGED <<registry, byConv, stream, ended, cleanup, closing, client>>

\* The exception handler has tried to refresh the matters; `error` goes out.
PublishError(r) ==
    /\ run[r].at = "failing" /\ ~run[r].cancelling
    /\ run' = [run EXCEPT ![r].at = "recording", ![r].outcome = "failed"]
    /\ log' = Published(r, "error")
    /\ UNCHANGED <<registry, byConv, stream, ended, cleanup, closing, client>>

\* Faulty variants of Finished: the stream is left open; nobody schedules the
\* cleanup.
FinishedWithoutEnd(r, status) ==
    /\ run' = [run EXCEPT ![r].at = "done", ![r].status = status]
    /\ ended' = ended
    /\ cleanup' = cleanup \union {r}
FinishedWithoutCleanup(r, status) ==
    /\ run' = [run EXCEPT ![r].at = "done", ![r].status = status]
    /\ ended' = [ended EXCEPT ![r] = TRUE]
    /\ cleanup' = cleanup

\* The `finally` of _supervise, with the status the run ends in.
Finished(r, status) ==
    /\ run' = [run EXCEPT ![r].at = "done", ![r].status = status,
                          ![r].cancelling = FALSE]
    /\ ended' = [ended EXCEPT ![r] = TRUE]
    /\ cleanup' = cleanup \union {r}

\* The runner returns its status.
ReturnStatus(r) ==
    /\ run[r].at = "recording" /\ ~run[r].cancelling
    /\ Finished(r, run[r].outcome)
    /\ UNCHANGED <<registry, byConv, stream, log, closing, client>>

\* CancelledError reaches the graph or a snapshot read: the usage is recorded
\* on the way out.
CancelUnwinds(r) ==
    /\ run[r].cancelling
    /\ run[r].at \in {"executing", "snapshotting", "failing"}
    /\ run' = [run EXCEPT ![r].at = "unwinding", ![r].cancelling = FALSE]
    /\ UNCHANGED <<registry, byConv, stream, log, ended, cleanup, closing, client>>

\* A faulty variant of CancelEnds: the stream ends without a last event.
CancelEndsSilently(r) ==
    /\ \/ run[r].at = "unwinding"
       \/ run[r].at = "recording" /\ run[r].cancelling
    /\ Finished(r, "cancelled")
    /\ UNCHANGED <<registry, byConv, stream, log, closing, client>>

\* CancelledError leaves the runner: out of an unwound graph, or raised by the
\* Redis call inside the runner's own `finally`, whatever was published before.
CancelEnds(r) ==
    /\ \/ run[r].at = "unwinding"
       \/ run[r].at = "recording" /\ run[r].cancelling
    /\ log' = Published(r, "cancelled")
    /\ Finished(r, "cancelled")
    /\ UNCHANGED <<registry, byConv, stream, closing, client>>

\* Anything else the runner raises.  Its own handler lets nothing out of the graph,
\* so it is what its `finally` does besides Redis; _supervise then tells the client.
RunnerRaises(r) ==
    /\ run[r].at \in {"recording", "unwinding"} /\ ~run[r].cancelling
    /\ log' = Published(r, "error")
    /\ Finished(r, "failed")
    /\ UNCHANGED <<registry, byConv, stream, closing, client>>

\* A task cancelled before its first step never enters _supervise: no status,
\* no event, no end, no cleanup.
CancelUnstarted(r) ==
    /\ run[r].at = "created" /\ run[r].cancelling
    /\ run' = [run EXCEPT ![r].at = "done", ![r].cancelling = FALSE]
    /\ UNCHANGED <<registry, byConv, stream, log, ended, cleanup, closing, client>>

\* A faulty variant of Forgotten: the mapping goes whichever run it names.
ForgottenAlways(r) == [byConv EXCEPT ![run[r].conv] = None]

\* _cleanup_later drops the conversation's mapping only if it is its own.
Forgotten(r) ==
    IF byConv[run[r].conv] = r THEN [byConv EXCEPT ![run[r].conv] = None]
    ELSE byConv

\* The retention period is over.
CleanupLater(r) ==
    /\ r \in cleanup
    /\ cleanup' = cleanup \ {r}
    /\ registry' = registry \ {r}
    /\ byConv' = Forgotten(r)
    /\ stream' = [stream EXCEPT ![r] = "none"]
    /\ UNCHANGED <<run, log, ended, closing, client>>

-----------------------------------------------------------------------------
(* Watching a run *)

\* GET .../stream: look up the conversation's latest run and answer with its
\* stream; the Last-Event-ID the client sends may be of any earlier run.
Attach(k, c) ==
    /\ client[k].at = "idle"
    /\ Latest(c) # None
    /\ closing # "closed"
    /\ Connect(k, Leading(Latest(c), "opening", FALSE))
    /\ UNCHANGED clientless

\* Where a subscription starts: _last_seq() takes any number from the request
\* and the stream resumes after it.  Bound: no id beyond a stream's longest log.
Resumes == 0..(MaxProgress + 2)

\* The response body starts: subscribe() finds or creates the stream object
\* and sets its cursor.  A new run's task has had its first step by then: it
\* was queued on the loop before the response was.
OpenStream(k) ==
    LET conn == client[k]
    IN  /\ conn.at = "opening"
        /\ run[conn.run].at # "created"
        /\ \E resume \in Resumes :
            Connect(k, [conn EXCEPT
                            !.at = "reading", !.cursor = resume,
                            !.object = IF stream[conn.run] = "none"
                                          THEN "again" ELSE stream[conn.run]])
        /\ stream' = IF stream[conn.run] = "none"
                     THEN [stream EXCEPT ![conn.run] = "again"] ELSE stream
        /\ UNCHANGED <<run, registry, byConv, log, ended, cleanup, closing>>

\* One event reaches the client; it may come from a batch taken before the
\* window moved on (EventFeed, which StreamBridge implements).  Nothing is ever
\* published to a stream object made after the run was cleaned up.
Receive(k) ==
    LET conn == client[k]
    IN  /\ conn.at = "reading" /\ conn.object = "first"
        /\ conn.cursor < Len(log[conn.run])
        /\ Connect(k, [conn EXCEPT !.cursor = @ + 1])
        /\ UNCHANGED clientless

\* END_SENTINEL: the response ends, and the generator's `finally` finds a run
\* that is no longer running.
StreamEnds(k) ==
    LET conn == client[k]
    IN  /\ conn.at = "reading" /\ conn.object = "first"
        /\ ended[conn.run]
        /\ conn.cursor >= Len(log[conn.run])
        /\ Connect(k, NoConnection)
        /\ UNCHANGED clientless

\* The generator's `finally`: only the stream that was asked for with
\* on_disconnect=cancel takes its run down.
CancelsOnLeave(conn) ==
    conn.owner /\ run[conn.run].mode = "cancel" /\ run[conn.run].status = "running"

\* request_cancel(): nothing for a run that is gone or whose task is done.
Cancelled(r) ==
    IF r \in registry /\ Alive(r)
    THEN [run EXCEPT ![r].cancelling = TRUE]
    ELSE run

\* The generator's `finally`.
GeneratorLeft(conn) ==
    run' = IF CancelsOnLeave(conn) THEN Cancelled(conn.run) ELSE run

\* The client goes away while the generator runs.
Disconnect(k) ==
    LET conn == client[k]
    IN  /\ conn.at = "reading"
        /\ GeneratorLeft(conn)
        /\ Connect(k, NoConnection)
        /\ UNCHANGED <<registry, byConv, stream, log, ended, cleanup, closing>>

\* StreamGap: the cursor has fallen out of the window.  The client is told to
\* reload and the response ends, through the same `finally`.
Gap(k) ==
    LET conn == client[k]
    IN  /\ conn.at = "reading" /\ conn.object = "first"
        /\ conn.cursor + Window < Len(log[conn.run])
        /\ GeneratorLeft(conn)
        /\ Connect(k, NoConnection)
        /\ UNCHANGED <<registry, byConv, stream, log, ended, cleanup, closing>>

\* The client goes away before the generator has started, or while POST /chat
\* waits: asyncio.wait passes no cancellation on.
Abandon(k) ==
    /\ client[k].at \in {"opening", "waiting"}
    /\ Connect(k, NoConnection)
    /\ UNCHANGED clientless

\* POST /chat returns once the task is done.
ChatReturns(k) ==
    LET conn == client[k]
    IN  /\ conn.at = "waiting"
        /\ run[conn.run].at = "done"
        /\ Connect(k, NoConnection)
        /\ UNCHANGED clientless

-----------------------------------------------------------------------------
(* Shutdown *)

\* aclose() up to the gather: no new run from here on, every task is cancelled.
CloseBegins ==
    /\ closing = "open"
    /\ closing' = "cancelling"
    /\ run' = [r \in RunIds |->
                IF r \in registry /\ Alive(r)
                THEN [run[r] EXCEPT !.cancelling = TRUE]
                ELSE run[r]]
    /\ UNCHANGED <<registry, byConv, stream, log, ended, cleanup, client>>

\* A faulty variant of Settled: leaves the status of unstarted tasks alone.
SettledNot(r) == run[r]

\* The loop after the gather, for one run.
Settled(r) ==
    IF r \in registry /\ run[r].status = "running" /\ run[r].at = "done"
    THEN [run[r] EXCEPT !.status = "cancelled"] ELSE run[r]

\* The rest of aclose(): every task has ended, the timers are cancelled and
\* the streams dropped.
CloseEnds ==
    /\ closing = "cancelling"
    /\ \A r \in registry : ~Alive(r)
    /\ closing' = "closed"
    /\ run' = [r \in RunIds |-> Settled(r)]
    /\ cleanup' = {}
    /\ stream' = [r \in RunIds |-> "none"]
    /\ UNCHANGED <<registry, byConv, log, ended, client>>

-----------------------------------------------------------------------------
TaskStep(r) ==
    \/ Begin(r)
    \/ GraphEnds(r)
    \/ PublishDone(r)
    \/ PublishError(r)
    \/ ReturnStatus(r)
    \/ CancelUnwinds(r)
    \/ CancelEnds(r)
    \/ CancelUnstarted(r)

ClientStep(k) == OpenStream(k) \/ Receive(k) \/ StreamEnds(k) \/ ChatReturns(k)

Next ==
    \/ \E k \in Clients, c \in Conversations :
        \/ \E q \in Requests \union {None}, mode \in {"cancel", "continue"} :
            StartNew(k, c, q, mode, "opening")
        \/ \E q \in Requests \union {None} : StartNew(k, c, q, "continue", "waiting")
        \/ \E q \in Requests, how \in {"opening", "waiting"} :
            StartAgain(k, c, q, how)
        \/ Attach(k, c)
    \/ \E r \in RunIds :
        \/ Begin(r)
        \/ Progress(r)
        \/ GraphEnds(r)
        \/ ExecutionFails(r)
        \/ PublishDone(r)
        \/ PublishError(r)
        \/ ReturnStatus(r)
        \/ CancelUnwinds(r)
        \/ CancelEnds(r)
        \/ RunnerRaises(r)
        \/ CancelUnstarted(r)
        \/ CleanupLater(r)
    \/ \E k \in Clients :
        \/ OpenStream(k)
        \/ Receive(k)
        \/ StreamEnds(k)
        \/ Gap(k)
        \/ Disconnect(k)
        \/ Abandon(k)
        \/ ChatReturns(k)
    \/ CloseBegins
    \/ CloseEnds

Spec == Init /\ [][Next]_vars

\* Tasks and timers run, and the server drives open responses.  Clients, the
\* graph's failures and the shutdown are nobody's obligation; CloseEnds is what
\* the gather in aclose() waits for.
FairSpec ==
    /\ Spec
    /\ \A r \in RunIds : WF_vars(TaskStep(r)) /\ WF_vars(CleanupLater(r))
    /\ \A k \in Clients : WF_vars(ClientStep(k))
    /\ WF_vars(CloseEnds)

-----------------------------------------------------------------------------
TypeOK ==
    /\ run \in [RunIds ->
        [conv : Conversations \union {None}, request : Requests \union {None},
         mode : {"cancel", "continue"}, status : Statuses, at : Points,
         outcome : Statuses, cancelling : BOOLEAN]]
    /\ registry \subseteq RunIds
    /\ byConv \in [Conversations -> RunIds \union {None}]
    /\ stream \in [RunIds -> {"none", "first", "again"}]
    /\ log \in [RunIds -> Seq(Kinds)]
    /\ ended \in [RunIds -> BOOLEAN]
    /\ cleanup \subseteq registry
    /\ closing \in {"open", "cancelling", "closed"}
    /\ client \in [Clients ->
        [at : {"idle", "opening", "reading", "waiting"},
         run : RunIds \union {None}, object : {"none", "first", "again"},
         cursor : 0..(MaxProgress + 3), owner : BOOLEAN]]

\* A conversation's state is one checkpoint thread: at most one of its runs has
\* a live task between the first event and the last write, and that one is what
\* admission, cancellation and reconnection find through _by_conversation,
\* whatever timers of older runs of the conversation have fired meanwhile.
OneExecutionPerConversation ==
    \A r \in RunIds :
        Alive(r) => r \in registry /\ Active(run[r].conv) = r

\* The registered status and the task agree, except between the cancellation
\* of an unstarted task and the end of aclose(): after it no run is left marked
\* running, and none that a client could still wait for.
StatusMatchesTask ==
    \A r \in registry :
        (run[r].status = "running") = Alive(r) \/ closing = "cancelling"

\* Every stream that ends, ends on an event that tells the client how the run ended:
\* whatever was published before, and wherever a cancellation or an exception came
\* in, the last event and the registered status agree.
EndsWithVerdict == \A r \in RunIds : ended[r] => Told(r, run[r].status)

\* Neither a run nor its stream outlives the retention period, and a client
\* that joined while the stream was there hears its end.
RunsAreReclaimed ==
    \A r \in RunIds :
        run[r].at = "done" /\ closing = "open" ~>
            r \notin registry \/ closing # "open"

WatchersAreReleased ==
    \A k \in Clients :
        (client[k].at = "reading" /\ client[k].object = "first")
            ~> client[k].at # "reading"
=============================================================================
