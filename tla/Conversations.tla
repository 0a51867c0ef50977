---------------------------- MODULE Conversations ----------------------------
(***************************************************************************)
(* One conversation behind its endpoints (api/routes.py: chat, confirm,    *)
(* clear_conversation, _execute_run's end, with core/matters.py): HTTP     *)
(* requests that read a snapshot, wait, and act on what they read, over    *)
(* the root graph (Workflow); and the matters panel of the client, which   *)
(* is fed by the root checkpoints of a run and by its end.                 *)
(*                                                                         *)
(* A request is suspended at its database calls only: what it does between *)
(* the return of one and the next is one step, start() included.  The run  *)
(* manager refuses a second run of the conversation; its run is `task`.    *)
(* A turn carries a request_id: a client that tries again sends it again,  *)
(* and is let through while the run it asked for is still active.          *)
(***************************************************************************)
EXTENDS Workflow

CONSTANTS
    Requests,      \* HTTP requests under way
    RequestIds     \* what the clients number their turns with

ASSUME RequestsAssumption == None \notin Requests \union RequestIds

VARIABLES
    task,          \* the run's task: "none"; "graph"; "settling" and "failing"
                   \* (reading the last snapshot); "closing" (recording usage)
    asked,         \* the request_id the run was started with (confirmations have none)
    panel,         \* the matters the client shows
    reported,      \* the last run told the client how it left them
    request        \* what each request has read and waits for

endpoints == <<task, asked, panel, reported, request>>

Quiet == [at |-> "none", turn |-> None, card |-> None, overlapped |-> FALSE]

-----------------------------------------------------------------------------
(* The panel *)

\* _card for a plan whose tasks have these statuses: the first task that waits
\* for the user; the plan at work in a run shows its first running task, or else
\* the first queued one.
Earliest(set) == {t \in set : \A u \in set : t <= u}
Card(p, status, shelf, running) ==
    LET among(values) == {t \in Tasks(p) : status[t] \in values}
        stuck == Earliest(among({"waiting_input", "waiting_confirmation"}))
        working == IF among({"running"}) # {} THEN Earliest(among({"running"}))
                   ELSE Earliest(among({"pending"}))
        shown(t) == [id |-> p.id, task |-> t,
                     status |-> IF t \notin stuck THEN "in_progress"
                                ELSE IF shelf THEN "shelved" ELSE status[t]]
    IN  {shown(t) : t \in IF stuck # {} THEN stuck
                          ELSE IF shelf \/ ~running THEN {} ELSE working}

\* A faulty variant of ProjectMatters: the leftovers of a dead run are taken as
\* they stand.
ProjectMattersRaw(status, running) ==
    Card([current EXCEPT !.status = status], status, FALSE, running)
        \union UNION {Card(p, p.status, TRUE, FALSE) : p \in shelved}

\* project_matters: without a run, tasks left RUNNING are read as recovered.
ProjectMatters(status, running) ==
    LET plan == [current EXCEPT !.status = status]
        read == IF running THEN plan ELSE Recovered(plan)
    IN  Card(read, read.status, FALSE, running)
            \union UNION {Card(p, p.status, TRUE, FALSE) : p \in shelved}

\* The statuses in a response: branches that have finished in an unfinished
\* batch count as merged, and the task of the card shown waits for it.
Settled(t) == node = "domain_task" /\ result[t] # None /\ result[t].status # "handed_off"
ResponseStatus ==
    [t \in Tasks(current) |->
        IF FirstCard(t) THEN "waiting_confirmation"
        ELSE IF Settled(t) THEN result[t].status
        ELSE current.status[t]]

\* A root checkpoint reaches the client while the run goes on.
Checkpointed == panel' = ProjectMatters(current.status, TRUE)'

-----------------------------------------------------------------------------
InitConversation ==
    /\ Init
    /\ task = "none" /\ asked = None
    /\ panel = {}
    /\ reported = FALSE
    /\ request = [r \in Requests |-> Quiet]

\* A run begins: it overlaps whatever has asked for an active run, or read a
\* snapshot, before.
Overlapped(except) ==
    [r \in Requests |->
        IF r = except \/ request[r].at = "none" THEN Quiet
        ELSE [request[r] EXCEPT
                !.overlapped = TRUE,
                !.card = IF @ # None /\ branch'[@] \notin {"card", "answered"} THEN None ELSE @]]

Starts(r) ==
    /\ task' = "graph"
    /\ asked' = request[r].turn
    /\ reported' = FALSE
    /\ request' = Overlapped(r)
    /\ Checkpointed

Answered(r) == request' = [request EXCEPT ![r] = Quiet]
\* A retry is overlapped from the start, by the run whose turn it repeats.
Waits(r, at, turn, card) ==
    request' = [request EXCEPT ![r] =
        [at |-> at, turn |-> turn, card |-> card,
         overlapped |-> turn # None /\ turn = asked]]

-----------------------------------------------------------------------------
(* POST /chat *)

\* _validate_chat_turn asks for an active run, then for the snapshot.  A turn that
\* carries the request_id of the active run is a retry, and is let through.
ChatArrives(r) ==
    /\ request[r].at = "none"
    /\ \E turn \in RequestIds :
        /\ task = "none" \/ asked = turn
        /\ Waits(r, "admitted", turn, None)
    /\ UNCHANGED <<vars, task, asked, panel, reported>>

\* A faulty variant of ChatReads: the pending card is not looked for.
ChatReadsBlindly(r) ==
    /\ request[r].at = "admitted"
    /\ request' = [request EXCEPT ![r].at = "chat"]
    /\ UNCHANGED <<vars, task, asked, panel, reported>>

\* The database takes the snapshot; with a card in it the turn is refused.
ChatReads(r) ==
    /\ request[r].at = "admitted"
    /\ IF CardPending THEN Answered(r) ELSE request' = [request EXCEPT ![r].at = "chat"]
    /\ UNCHANGED <<vars, task, asked, panel, reported>>

\* start(): the turn begins, with whatever the conversation has come to.
ChatStarts(r) ==
    /\ request[r].at = "chat" /\ task = "none"
    /\ NewInput
    /\ Starts(r)

\* start() finds a run under way: a retry gets the run it asked for and waits for
\* its end with it, anything else a RunConflictError.
MeetsRun(r) ==
    /\ request[r].at \in {"chat", "confirm"} /\ task # "none"
    /\ Answered(r)
    /\ UNCHANGED <<vars, task, asked, panel, reported>>

-----------------------------------------------------------------------------
(* POST .../confirm *)

\* _validate_confirmation reads the snapshot; it must hold the card meant.
ConfirmReads(r) ==
    /\ request[r].at = "none"
    /\ \E t \in Positions : FirstCard(t) /\ Waits(r, "confirm", None, t)
    /\ UNCHANGED <<vars, task, asked, panel, reported>>

\* The card is still there: its branch gets the decision.
ConfirmStarts(r) ==
    /\ request[r].at = "confirm" /\ task = "none"
    /\ request[r].card # None
    /\ branch' = [branch EXCEPT ![request[r].card] = "answered"]
    /\ live' = TRUE /\ said' = TRUE
    /\ UNCHANGED <<parallel, node, current, shelved, result, broken>>
    /\ Starts(r)

\* The card is gone: the resumption names an interrupt nobody waits at.  What
\* the last run left unfinished goes on; with nothing left the run just ends.
ConfirmMisses(r) ==
    /\ request[r].at = "confirm" /\ task = "none"
    /\ request[r].card = None
    /\ live' = (node # "end") /\ said' = TRUE
    /\ UNCHANGED <<parallel, node, current, shelved, branch, result, broken>>
    /\ task' = IF node # "end" THEN "graph" ELSE "settling"
    /\ asked' = request[r].turn
    /\ reported' = FALSE
    /\ request' = Overlapped(r)
    /\ UNCHANGED panel

-----------------------------------------------------------------------------
(* DELETE .../conversations/{id} *)

\* A faulty variant of ClearChecks: nobody asks for an active run.
ClearChecksNothing(r) ==
    /\ request[r].at = "none"
    /\ Waits(r, "clear", None, None)
    /\ UNCHANGED <<vars, task, asked, panel, reported>>

\* The snapshot is in, no run is active: the deletion is on its way.
ClearChecks(r) ==
    /\ request[r].at = "none" /\ task = "none"
    /\ Waits(r, "clear", None, None)
    /\ UNCHANGED <<vars, task, asked, panel, reported>>

\* A card a request has read is no longer the one that is shown.
Forgetting(set) ==
    [q \in Requests |-> IF request[q].card \in set THEN [request[q] EXCEPT !.card = None]
                        ELSE request[q]]

\* adelete_thread.  Abstraction: what becomes of a run whose thread is deleted
\* under it is not followed.
ClearDeletes(r) ==
    /\ request[r].at = "clear"
    /\ node' = "end" /\ live' = FALSE /\ said' = TRUE
    /\ \E id \in PlanIds : current' = EmptyPlan(id)
    /\ shelved' = {}
    /\ branch' = [t \in Positions |-> "none"]
    /\ result' = [t \in Positions |-> None]
    /\ broken' = {}
    /\ IF task = "closing" THEN UNCHANGED <<task, asked>> ELSE task' = "none" /\ asked' = None
    /\ panel' = {} /\ reported' = FALSE
    /\ request' = [Forgetting(Positions) EXCEPT ![r] = Quiet]
    /\ UNCHANGED parallel

-----------------------------------------------------------------------------
(* The run *)

\* What a step of the graph does to the rest: a root checkpoint feeds the panel;
\* a branch that passes its card makes the decisions still on their way void.
GraphStep ==
    /\ task = "graph" /\ Work
    /\ IF node' # node \/ current' # current THEN Checkpointed ELSE UNCHANGED panel
    /\ task' = IF live' THEN "graph" ELSE "settling"
    /\ request' = Forgetting({t \in Positions : branch[t] # branch'[t]})
    /\ UNCHANGED <<asked, reported>>

\* `done` carries the response, the matters in it replace the panel.
PublishDone ==
    /\ task = "settling" /\ task' = "closing"
    /\ panel' = ProjectMatters(ResponseStatus, FALSE)
    /\ reported' = TRUE
    /\ UNCHANGED <<vars, asked, request>>

\* The graph raises, or the final snapshot cannot be read.
RunRaises ==
    /\ \/ task = "graph" /\ RunDies
       \/ task = "settling" /\ UNCHANGED vars
    /\ task' = "failing"
    /\ UNCHANGED <<asked, panel, reported, request>>

\* The handler refreshes the panel if the snapshot can be read.
PublishError ==
    /\ task = "failing" /\ task' = "closing"
    /\ reported' \in BOOLEAN
    /\ panel' = IF reported' THEN ProjectMatters(ResponseStatus, FALSE) ELSE panel
    /\ UNCHANGED <<vars, asked, request>>

\* The run is cancelled or the process restarts; a restart takes the requests
\* with it.
RunKilled ==
    /\ task # "none" /\ task' = "none" /\ asked' = None
    /\ IF task = "graph" THEN RunDies ELSE UNCHANGED vars
    /\ reported' = (reported /\ task = "closing")
    /\ request' \in {request, [r \in Requests |-> Quiet]}
    /\ UNCHANGED panel

\* The usage is recorded, the run manager marks the run as ended.
RunEnds ==
    /\ task = "closing" /\ task' = "none" /\ asked' = None
    /\ UNCHANGED <<vars, panel, reported, request>>

NextConversation ==
    \/ \E r \in Requests :
        \/ ChatArrives(r)
        \/ ChatReads(r)
        \/ ChatStarts(r)
        \/ MeetsRun(r)
        \/ ConfirmReads(r)
        \/ ConfirmStarts(r)
        \/ ConfirmMisses(r)
        \/ ClearChecks(r)
        \/ ClearDeletes(r)
    \/ GraphStep
    \/ PublishDone
    \/ RunRaises
    \/ PublishError
    \/ RunKilled
    \/ RunEnds

ConversationSpec == InitConversation /\ [][NextConversation]_<<vars, endpoints>>

-----------------------------------------------------------------------------
\* A card the user was shown goes away without an answer only with the whole
\* conversation, or by a turn that a run overlapped while it waited: one that asked
\* before that run began, or the retry of that run's own turn, let in while it was
\* active; that run ends on the card, and the turn starts over it.  (That much
\* _validate_chat_turn leaves open; see the README.)
CardsAreAnswered ==
    [][\A r \in Requests :
        CardPending /\ ChatStarts(r) => request[r].overlapped]_<<vars, endpoints>>

\* A thread is never deleted under a run that the check before the deletion
\* could have seen.
ClearSparesRuns ==
    [][\A r \in Requests :
        task \in {"graph", "settling", "failing"} /\ ClearDeletes(r)
            => request[r].overlapped]_<<vars, endpoints>>

\* After a run that could say how it ended, well or badly, the panel lists the
\* plans a sentence of the next turn can mean (Workflow's Target) and no others,
\* and nothing as still in progress.  While a card is shown, its plan is listed,
\* for that task or an earlier one that waits.  (A batch that failed after one of
\* its branches had finished is excepted; see the README.)
PanelTellsTheTruth ==
    reported /\ task \in {"none", "closing"} =>
        /\ \A m \in panel : m.status # "in_progress"
        /\ ~CardPending /\ (\A t \in Positions : ~Settled(t)) =>
            {m.id : m \in panel} = {p.id : p \in {q \in shelved \union {Now} : Open(q)}}
        /\ \A t \in Positions : FirstCard(t) =>
            \E m \in panel : m.id = current.id /\ m.task <= t
=============================================================================
