# A verification model of the enterprise assistant

This directory holds TLA+ modules, TLC configurations and TLAPS proofs about
the Python service in `src/src/enterprise_ai_assistant` (below, paths are
relative to that package). `PROJECT.json` lists the components, the runs, the
mutants that show each property can fail, the source lines each definition
translates, the findings, the hazards and the theorems.

Check one run with `tlc -config <run>.cfg <MCmodule>.tla`, the proofs with
`tlapm <module>Proofs.tla`.

## 1. The system

One FastAPI process. A user talks to a *conversation*, which is a thread of a
LangGraph graph with a checkpoint in Postgres. A chat turn or the answer to a
confirmation card starts a background *run* of that graph; HTTP clients only
watch it over server-sent events. The graph has two levels: the root graph
understands the turn, keeps a plan of tasks and dispatches them; a task is a
subgraph in which a domain agent (travel, expense, HR, meeting, general) picks tools.
Tools that write ask the user first and then write a row into a ledger.

| component | state it keeps | operations | interacts through |
|---|---|---|---|
| event bridge, `core/runs.py` | per run a window of events, sequence numbers, `ended` | publish, publish_end, subscribe, cleanup, close (the last two as steps of `RunManager`) | one condition variable per stream |
| run manager, `core/runs.py` | runs, run of each conversation, clean-up tasks, `_closed` | start, cancel, subscribe, aclose, retention | asyncio tasks, cancellation, the bridge |
| conversation endpoints, `api/routes.py` | nothing of their own | chat, confirm, attach, read, clear, rate | run manager, checkpoint, relays of events |
| answer relay, `api/routes.py` | per run: queued answers, which of them speaks | chunk, whole, flush, task_done | the parts of the graph's stream; the bubbles of the client |
| root graph, `graph/workflow.py` | current plan, shelved plans, drafts, artifacts, batch, answers | recall, understand, plan, select_task, domain_task, apply_domain_result, remember | checkpoint after each node; `Send` to subgraphs; interrupt/resume |
| domain task, `graph/domain.py` | messages, iterations, pending call, card, results | initialize, decide, confirm_tool, execute_tool, finish, respond | tools, the user's card, the root graph |
| action ledger, `repositories/actions.py` | `workflow_actions`: row per idempotency key | execute_once, update_submitted, revoke_submitted, list | Postgres transactions, row locks, unique key |
| enterprise tools, `tools/*.py` | `_booked`: rooms occupied, in memory only | submit, update, revoke, book, query | ledger; asyncio interleaving |
| matters, `core/matters.py` | none (a projection of the checkpoint) | project, open | panel events |
| planning and models, `services/planning.py`, `services/llm.py`, the validators of `core/models.py` | none | understand, plan, extract | the model service |
| memories, `repositories/memories.py` | `user_memories` | list, upsert, delete | background task of `remember` |
| policies, `repositories/policies.py` | vector collection, query cache | bootstrap, search | Milvus, Redis |
| feedback, `services/feedback.py`, `repositories/feedback.py` | ratings table, queue and worker | rate, submit, aclose | background worker, LangSmith |
| token budget, `api/routes.py` | Redis counters with expiry | check, record | several runs at once |
| lifespan, `main.py` | the exit stack | start, release in reverse order | everything |
| users, security, config, logging, metrics, serialiser, schemas, evals, frontend | static or stateless | | |

What is hard about it, and what makes each part correct:

* **Bridge.** A subscriber copies a batch under the lock and yields it outside,
  while the window moves on. Correct: what a subscriber gets is a contiguous
  piece of what was published, starting after the event it said it has; the end
  is announced only after everything; a gap only if events are really lost;
  nobody sleeps through news.
* **Run manager.** Cancellation arrives at any await, before the task's first step
  as well; clean-up timers of old runs overlap new runs; shutdown overlaps
  all of it. Correct: one execution per conversation, a live run is found by its
  conversation, status, last event and end of stream agree, and everything ends.
* **Root graph.** A run can die after any node; plans are shelved and resumed
  over many turns; batches run in parallel. Correct: no task runs before what it depends on, no
  open matter is lost or unreachable, ended tasks stay ended, each turn ends.
* **Domain task.** The model answers anything, nodes are replayed. Correct: a write runs only
  as the call the user approved; the result's status is what happened; a
  text shown to the user reaches the conversation once; the loop ends.
* **Ledger and rooms.** A check on one connection, the write on another; replays of the same key;
  a list in memory beside a table. Correct: one effect per key, documents
  stay legal, revoked stays revoked, updates keep what they do not name, no
  double booking, memory and table agree.
* **Endpoints and panel.** A request reads a snapshot, waits, and acts on what it
  read. Correct: a card the user has seen is not discarded by a turn that should have
  seen it too, no thread is deleted under a run the check could see, the panel
  lists what the next turn can mean.
* **Answer relay.** Branches of a batch speak at the same time into one stream.
  Correct: a bubble holds one answer, whole, and nothing is held back
  when the task or the run is announced as done.
* **Policy index.** Deployments change clauses and embedding model, and each
  may die half way through its synchronisation. Correct: reported success means the
  collection is the code's clauses, and what is in order is not taken away on the way.
* **The rest.** Budget counters that must expire; ratings that must reach the
  other side in order; a cache that must not outlive what it caches; releases in
  the order the start-up comments promise.

## 2. Plan

Ordered by what matters most for the service:

| # | modules | subject | state |
|---|---|---|---|
| 1 | `EventFeed`, `StreamBridge`, `StreamBridgeProofs` | replay log, abstract feed, refinement and proof | done |
| 2 | `RunManager`, `RunManagerProofs` | runs, cancellation, retention, SSE clients; proof | done |
| 3 | `PlanRules`, `Workflow`, `WorkflowProofs` | what the validators let through; plans over turns, batches, failures; proof | done |
| 4 | `Documents`, `ActionLedger`, `ActionLedgerProofs` | the ledger, abstract store, refinement and proof | done |
| 5 | `MeetingRooms`, in `ToolProofs` | memory beside the ledger; proof | done |
| 6 | `DomainTask`, `DomainTaskProofs` | one task and its agent; proof | done |
| 7 | `FeedbackSync`, `TokenBudget`, composed by `Lifespan`, `LifespanProofs` | ratings and their mirror, the budget window, start-up and release; proofs | done |
| 8 | `Conversations`, over `Workflow`, in `WorkflowProofs` | chat, confirm, clear and the panel: state read before an await and used after it; proof | done |
| 9 | `AnswerRelay`, `AnswerRelayProofs` | answers of parallel branches on one stream; proof | done |
| 10 | `PolicyIndex`, in `ToolProofs` | synchronisation over deployments, search behind a cache; proof | done |
| 11 | `History`, `Memories` | the digest and window a prompt is built from; extraction, upsert and deletion of memories in the background | planned |

Every safety property the runs check is a theorem. What could be proved next: that one
run of `RunManager` implements an abstract "one execution, one verdict", and
`MeetingRooms` against an abstract calendar.

## 3. The modules and the code

General conventions: everything runs on one asyncio event loop, so an action is
the code from one suspension to the next, or a whole node where only its
checkpoint can be observed. What a language model, a user or a remote service
says is chosen freely from what the code accepts. Definitions marked
`[mutant]` or "Faulty variant" are plausible bugs; `PROJECT.json` names for each property one
definition to replace by such a variant so that the property fails.

### StreamBridge, EventFeed (`core/runs.py` 100-235)

State: `events`, `next_seq`, `start_seq`, `ended` are the fields of
`_RunStream`; `phase`, `cursor`, `pending` the local state of each `subscribe`
generator. Actions: `Publish` (append, trim, notify all), `PublishEnd`,
`Subscribe` (cursor from Last-Event-ID), `Look` (under the lock: gap, batch, end
or wait), `Deliver` (one `yield` outside the lock), `Heartbeat` (the wait times
out), `Disconnect`. `EventFeed` is the docstring's promise with no buffer; the
refinement maps a reader's position to `cursor` minus what is still pending.

### RunManager (`core/runs.py` 237-412, `api/routes.py` 586-995)

State: `run` (the `Run` objects with the await their task is at), `registry`
(`_runs`), `byConv` (`_by_conversation`), `stream` (which stream object an id
maps to), `log`, `ended`, `cleanup` (sleeping `_cleanup_later` tasks), `closing`
(progress of `aclose`), `client` (each with its connection). Actions follow `start`, `_supervise`,
`_execute_run`, `request_cancel`, `_cleanup_later`, `aclose` and the endpoints;
a cancellation is a flag that takes effect at the next await, including the one
before the task's first step. A run owns a conversation's only thread.

### AnswerRelay (`api/routes.py` 385-583, `frontend/src/main.tsx`)

State: `answers`, `queue`, `suppressed`, `active` are the fields of
`_AnswerRelay`; `branch`, `calls`, `run` say where the graph stands, `bubbles` is
what the client makes of the events. `Chunk`, `Whole`, `Flush` are the methods,
each with the loop of `_advance` as one operator; the parts of the graph's stream
arrive in order and `publish` does not suspend, so writing and relaying are one
step. A text is the number of its pieces. `CallAgain` is `respond()` asking a
second time within its node, under the same key; `spoken` and `again`
record what was said and which keys that happened to.

### PlanRules, Workflow (`graph/workflow.py`, `core/models.py`, `agents/supervisor.py`)

`PlanRules` holds the validators: `plan_from_outlines`, `TaskPlan` and
`ContextResolution`. `MCWorkflow` compares them, as assumptions TLC evaluates,
with what their messages promise for all plans of up to three tasks (for plans of any
size see `WorkflowProofs`). The worklist
of `validate_dependencies` is stated by its result, the least set that contains each
task whose dependencies it contains (`Finishable`).

State: the checkpoint: `node` to run next, `current` plan with status, domain,
hand-offs and drafts of each task, `shelved` plans (a set: the list is searched by id and
its order only shows in what is displayed), `branch` and `result` of the
batch. An action is a graph node: `Understand` with its four relations
(new plan, resume, cancel, follow-up), plan, `select_task`, each branch of `domain_task`,
`apply_domain_result`; `remember` is merged into the end of the turn.
`Die` may strike between any two. Of LangGraph the model assumes: a checkpoint
per superstep, finished branches of an unfinished batch are kept until a new
input discards them, and a card stays on screen when a resumed run failed.
Of the messages only `said` is kept, whether anything has followed the user's
last one; texts and artifacts are abstracted. Resolutions, targets and outcomes are free.

### Conversations (`api/routes.py` 215-259, 608-700, 786-950, 1182-1200, `core/matters.py`)

Extends `Workflow` with `task` (where the run's task is), `panel` (what the client
lists), `reported` (the run said how it ended), `asked` (the request_id of the active
run) and `request` (what each HTTP request has read). A request is suspended at its database calls only, so a check
is one action and what it leads to another: `ChatArrives`, `ChatReads`,
`ChatStarts`; `ConfirmReads`, `ConfirmStarts` or, when the card is gone,
`ConfirmMisses`; `ClearChecks`, `ClearDeletes`. A turn whose request_id is that of the
active run is let through (`ChatArrives`) and given that run, if it still is active
when the turn comes to `start()` (`MeetsRun`). `overlapped` marks a request
after whose check a run began, and such a retry. `ProjectMatters` is `project_matters`; the
panel follows root checkpoints (`GraphStep`), `done` and `error`.

### ActionLedger, Documents (`repositories/actions.py`, write tools of `tools/local_enterprise.py`)

A row per idempotency key. The tools' check (`_merged`, `revoke_submission`)
and the transaction (`update_submitted`, `revoke_submitted`) are two actions.
`Interrupt` is a run that dies after any step, with the card coming back;
`ToolRaised` is any exception, also after the commit, reported as an error. The
filter by user and the collision of six-digit references are abstracted: every document has its own.
`Documents` is the store a user believes in.

### MeetingRooms (room tools of `tools/local_enterprise.py`)

`booked` is `_booked`, lost on `RestartRooms`; `ledger` the bookings. Each tool is
check, record, hold: the check includes the read of the row, the record is the
transaction, the hold the write to `_booked` after the await. Presets move with
`today`.

### DomainTask (`graph/domain.py`)

An action is a node: `Initialize`, the branches of `Decide` (answer, ask, read,
write, hand-over, each validation error), `ConfirmTool`, running a tool and
checkpointing its outcome (two steps), `Finish`, `Respond`. A fault runs a node
again from its checkpoint: `DecideLost`, `ConfirmLost` and `ExecutionLost`, the failing
or stopped run that a repeated confirmation resumes. A note is what the model says beside a tool call; it
travels with the card or with the result and is de-duplicated by message id:
`conversation` counts how often each note stands in the message list. Its id is new in every
execution of `decide`, so what a lost execution streamed (`lost`) is a note of its own.

### FeedbackSync, TokenBudget, Lifespan (`main.py`, `services/feedback.py`, `repositories/feedback.py`, `api/routes.py`, `graph/workflow.py`)

`FeedbackSync`: the local row, what the tracing service holds, the requests
between `save` and `submit`, `_queue`, the worker and its one `_send` thread. A
rating stands for its own content, so "follows" is about identity and not about
two values that happen to be equal.
`TokenBudget`: the counter of an address and its expiry, and the runs that
charge it in `_record_usage`: INCRBY and EXPIRE are two awaits, and a run may be cancelled at each.
A call that fails or is cancelled may have been sent: it is adrift, and Redis carries it out
at any later time (`Lands`) or never; redis-py, whose retries the settings leave on, may also send
an INCRBY twice.
`Lifespan` extends both with the process: the exit stack as a sequence, what
each callback waits for, the background extractions, kill and restart. Table,
tracing service and Redis survive; everything else is lost.
A thread that still calls the tracing service when its worker is cancelled
runs on and is joined before the interpreter exits. The server stops before
the lifespan does, so requests are answered by then; runs are not. (An open event stream
can hold the server back; `Stop` begins when it no longer does.)

### PolicyIndex (`repositories/policies.py`, `main.py` 66-72)

State: the deployed code (`corpus`, `model`, `rebuild`), the `collection` with the
text, model and hash of each row, the bootstrap's `step` and locals, the
cached answer of one query and the searches. An action per call of Milvus or the
embedding service; `SyncFails` and `Restart` between any two. The first collection
may be one an early version left, without hashes.

## 4. What the runs check

Each run takes at most about two minutes on two cores.

| run | question and result |
|---|---|
| `bridge` | Does a client get an unbroken replay from any Last-Event-ID, an honest gap, an honest end, and is it woken? Two connections, a window of two under four events: a reader can fall out of the window twice, also while it yields. Checks `ReplayContiguous`, `NoLostWakeup`, the refinement `FeedSpec` and the liveness `SubscriberReleased`. |
| `runs` | One execution per conversation; status, last event and end of stream agree; finished runs are reclaimed, watchers that joined in time are released. Two runs of one conversation (the race between an old run's timers and its successor needs two) and a client that starts, retries, leaves and attaches, with the shutdown. |
| `answers` | Two branches side by side or one after the other, whose texts lie around the threshold, with calls repeated in their node, tool calls, whole texts, cards and hand-overs: each bubble holds one answer, and nothing is held back when a task or the run is done. |
| `workflow` | No plan lost, copied or stranded; no task before what it depends on; ended is final; open matters stay; no turn ends without a word. Plans of two tasks, independent or dependent (and a circular one, to be refused), serial and parallel, one current and up to two shelved. Two tasks are the least with a dependency and a batch; three plans the least with a shelf that is more than its top. |
| `workflow_live` | Every turn ends. Three domains and one allowed hand-over, so that both barriers (visited, too often) are met. |
| `conversations` | Two requests of any kind over a graph with a batch of two tasks and a shelf: cards are answered, clearing spares runs, the panel tells the truth. Two requests are what it takes for one to overtake or to repeat another; turns have one of two request_ids. |
| `ledger` | One effect per key, legal documents, audited changes, recorded success under two updates and a revocation from different conversations; and for a user in one conversation at a time the table implements `Documents`, with one tool of the four called twice under its key. Two fields with an order between them, so that two legal updates could combine into an illegal one. |
| `ledger_revival` | Expected violation: see Findings. |
| `rooms` | Of calls that come one after the other, across midnight: no double booking, memory and ledger agree. The first overlap, stopped call or restart ends `calm`, and with it what the two properties ask: the code keeps neither from then on (Findings). Two faults. |
| `domain` | Writes only with approval, the status is earned, notes of decisions that stood reach the conversation once, the task ends. Four decisions reach every validation branch and the limit, with a note before and after a lost decision; two faults strike twice in one task. |
| `lifespan` | Nothing used after its release, the tracing service follows the last rating, the window of an address is fixed, a shutdown ends. Two runs and two ratings (first and correction), a failing call to the tracing service, one moment at which calls to Redis fail or are left adrift, any number of kills and restarts. |
| `policy` | Any number of deployments with other clauses and models (three, two of which share a dimension), each cut off or failing at any call: a sync that reports success is exact, never takes away a row in order, and searches after it answer with current clauses. |

Bounds and where they are: `MaxEvents`, `BufferSize` (bridge); `RunIds`,
`MaxProgress`, `Window` (runs); `Hold`, `MaxCalls`, `MaxText`, `MaxWholes` (answers; the
threshold of two pieces stands for the code's number of characters); `PlanIds`,
`Shapes`, `MaxHandoffs` (workflow); `Requests` (conversations);
`MaxRounds`, `MaxRepeated` (ledger); `MaxDay`, `MaxFaults` (rooms); `MaxIterations`, `MaxFaults`
(domain; the code's own limit is a larger number); `MaxNetFaults`,
`MaxRedisFaults`, `Turns`, `Ratings` (lifespan); `Clauses`, `Texts`,
`Models`, `Searches` (policy). Most modules end
because these run out, or because a run is over, so their runs do not ask for absence of deadlock; the
liveness properties say instead what has to be reached. `bridge`, the two
`workflow` runs, `conversations` and `policy` do check it.

### Fairness

* `StreamBridge`: weak fairness of `PublishEnd`, `Look` and `Deliver`. A run ends
  its stream in a `finally`, and the event loop schedules a task that is ready.
  None for `Heartbeat`: nobody's release may hang on a timer.
* `RunManager`: weak fairness of the run's task, the sleeping clean-up, a
  client's request and the end of `aclose`: all are tasks of the event loop or
  timers. A client may stay as long as it likes.
* `Workflow`: weak fairness of the nodes of a run that lives (`Work`), nothing
  of the user.
* `DomainTask`: weak fairness of the nodes; the answer to a card may never come.
* `Lifespan`: weak fairness of the release callbacks and of what they wait for:
  extraction calls and sends, whose clients have timeouts, and Redis calls. `main.py` 57
  gives the Redis client no timeout, so that these end is an assumption about Redis and not
  about the code; it is also assumed that the event streams still open end, before which the
  server does not come to the lifespan. None for a graph that executes: a shutdown must not
  depend on it.

## 5. What is proved

TLAPS checks the theorems for every value of the constants allowed by the
named assumptions.

**`StreamBridgeProofs`** (assumes `BufferSize`, `MaxEvents` natural numbers).
The inductive invariant `IInv` has seven parts. `ReplayContiguous` alone is not
inductive: that `Deliver` continues the replay needs to know that the pending
batch is the stretch of the log behind what was yielded (`BatchInSync`), and that `Look`
copies such a stretch needs to know that the window is exactly the last
published events with `start_seq` their position (`WindowExact`). `EndMeansComplete`
and `GapIsReal` say what the two sentinels mean, `NoLostWakeup` that a sleeper
has nothing to see. There is a lemma per action; `InvariantHolds` combines
them. `ImplementsFeed` shows that each step is one of `EventFeed` or invisible.

**`ActionLedgerProofs`** (assumes the key sets disjoint, `None` and `Same`
distinct from data, `Legal` a set of payloads). `IInv` = `TypeOK`,
`RowsAreDocuments` (a create key's row names itself), `EffectLeavesRow` (a key
with an effect has its row, so its replay has none: this is what makes
`AtMostOnce` inductive), `CallsAreSound`, `MergedIsLegal` (what waits to be
written was validated), `DocumentsStayLegal`, `EveryChangeIsAudited`.
`SerialLedgerIsStore` adds, for a user in one conversation at a time (`serial`),
`CheckStillHolds`: between the check and
the commit of a call the document it read has not changed. Without `serial` that is false, which
is what `ledger_revival` shows. `SuccessStaysRecorded`: what a call answered as a success
stands in the table from then on.

**`LifespanProofs`** (assumes the bounds natural numbers, the usage of a run
positive, `None` no rating). `IInv` has three parts that hardly touch. *Window:* `OneOpens` (a
charge that knows it opened the window is the only one, and until its EXPIRE there is
none, be it owed or adrift) and `ExpiryIsOwed`; the first is why a late EXPIRE cannot push
back a window. *Stack:* `Stacked` gives every stack element by its length, `Tied` says
from which length on runs and extractions may live; `NoUseAfterRelease` alone says nothing of
what a release has waited for. *Mirror:* `LastIsSubmitted`: one event is sent at
a time, the last that waits is the last submitted, and so is the one being sent when
none waits. `TypeCorrect`, `ResourcesOutliveTasks`, `MirrorFollows` and
`WindowIsFixed` follow.

**`RunManagerProofs`** (assumes `Window` positive, `None` no id). `IInv` = types, for each run
`IsFound`, `IsTold` and `IsSettled`, for each client `Watches`. `OneExecutionPerConversation`
speaks of two tasks and is not inductive: that `start` refuses a second one needs
`IsFound`, which says that a live task is the registered run its
conversation leads to *and* is marked as running, the two things `start` looks at; an
old run's clean-up cannot take that away because a run that is being cleaned up is over
(last part of `IsFound`) and clears the conversation only if it still leads to it.
`IsTold` follows the log through `_execute_run`: the verdict is published before the usage is
recorded, and the end of the stream after both; `Told` ties the last event to the status, so a
cancellation or an exception that comes after `done` has to bring its own event. `IsSettled` says where the status may lag
behind the task: a task that is cancelled before its first step never reaches its
`finally`, and only the shutdown does that. (A client can cancel only once it reads, and it reads
only from a task that has begun: `Watches`.)

**`AnswerRelayProofs`** (assumes a positive threshold, `None` no key).
`Relayed(answers, queue)` says how the relay and the client's bubbles fit together: no key twice in the
queue, the active answer first in it and in the last bubble, nothing of a later answer sent,
and whatever has left the queue finished and sent. It takes its two arguments because the
code changes them twice in one step: `HandedIsRelayed`, writing to an answer (`chunk`,
`whole`, `flush`) leaves answers and a queue that are still `Relayed`; `AdvanceKeeps`, so does the loop of `_advance` from
there, wherever it stops (`AdvanceShape` names the three numbers that describe a
pass: answers that left, answers that were sent to, whether the first went on).
`FreshInv` and `SpeakingInv` tie the relay to the branches (a new call has a new key; what
was spoken is in its answer), `AnnouncedInv` to what was announced. `NothingHeldBack` then
reads: nothing of an announced task is in the queue, so all of it was sent.

**`WorkflowProofs`** (assumes plans to be finite sequences of dependency sets and not empty,
`None` no id). `IInv` = `Core` and `RestInv`. `Core`: each plan is `Sound`
(its dependencies can be ordered, what has begun has its dependencies completed,
nothing is queued behind a dead task, drafts belong to tasks that wait or run), shelved
plans are open and still, `NodeInv` says what each node may rely on, `BatchInv` where
a branch's result comes from. `RestInv`: between turns the current plan is worked off
unless a run died on it. Three arguments carry it. *Plans:* each operator that changes a plan
(recover, requeue, dispatch, merge with its cascade of rejections, hand-off, cancel)
keeps it `Sound`; that the cascade reaches everything behind a dead task, and that an
accepted plan always has a runnable task until it is worked off, uses the order of
its dependencies: an accepted outline depends on earlier tasks only, and `Finishable`
contains everything only if any part of the plan has a task that depends on none of it
(`Orderly`; `PlansCanBeDone` proves that this is all the validator demands, `OutlinesCanBeDone`
that outlines always meet it). `MattersAreKept` needs all of it: a plan with something left has
its place through resuming, requeueing and replanning because, where the next turn looks at it, what is
left waits for the user (`LeftoversWait`), unless a run died on it. *Shelf:* a swap takes one plan out and puts another in,
so ids stay apart. *Conversation:* behind `Conversations`, requests do what
a single user would not (start a turn over a card, answer a card that is
gone, delete a thread under a run), and `RestInv` is lost with `NothingStranded` and
`OpenMattersKept`. `Core` survives: `ConversationInv` adds what a request that no run
has overlapped has read (`ReadingsHold`), from which `CardsAreAnswered` and `ClearSparesRuns`
follow; `PlansSurviveRequests` and `EndedSurvivesRequests` state what is left of the plan
properties. `PanelTellsTheTruth` is `PanelInv`, the client was last told what a
response would say now, plus what `Core` says of the plans such a response lists.

**`DomainTaskProofs`** (assumes tools of different risk to differ, a positive limit). `IInv`:
`CallIsReady` (the card that is shown is the waiting call's; a call at
`execute_tool` was granted if it writes: `WritesAreApproved` alone does not say
that of a call that has not run yet), `NotesAccounted` (every note that is not lost is in the conversation, with the result's
notes or on the shown card, one to a decision, and the next id was never used; this is what makes replays harmless), `Earned` (until
the agent is done nothing has failed; then the flags `_result` reads say what the last tool did).

**`ToolProofs`**, first half: `PolicyIndex` (assumes a dimension for each model, `None` no text or row).
`IInv` = `TypeOK`, `RowsFit`, `Informed`, `Converging`, `SyncIsExact`. `Informed`:
what the bootstrap has read is still true when it acts on it, for nobody else writes
the collection. `Converging`: from the upsert on, whatever is not in order is on one of the two
lists, from which `SyncIsExact` follows at the end. `RowsFit`, every row has the
dimension of its collection, is needed for the rebuild: if the collection has another dimension than
the model, no row can be of that model, so all clauses are on the list and dropping
the collection takes away nothing that was in order (`RowsStay`). `SearchInv` adds the searches: nobody
searches before the sync is over, so what is found after a success is
current, and what an earlier process cached is marked as inherited (`SearchesAreCurrent`).

**`ToolProofs`**, second half: `MeetingRooms` (which shares no name with
`PolicyIndex`; assumes that the calls of the three tools are apart, slots are
intervals and `Nothing` is no data). `RoomsInv` = `RoomsTypeOK` and, while `calm`, `InTurn`:
at most one call is between its check and its end; what was clear of the memory at the check is
clear of the ledger's live bookings when it records; the memory differs from the ledger only at the
booking a call has recorded and not yet returned from. `CheckInTurn`, `RecordInTurn` and
`HoldInTurn` prove that for the three steps of a call, whatever its tool. After an
overlap, a stopped call or a restart only the types are left, as the findings below say.

Each invariant that is proved inductive was first checked by TLC on the instance of the
component's run, and each listed theorem that names a property states the very definition a run checks.

Only model-checked: liveness (`SubscriberReleased`, `RunsAreReclaimed`,
`WatchersAreReleased`, `TurnEnds`, `TaskEnds`, `ShutdownCompletes`). It needs fairness and
`ENABLED`, which the installed provers cannot reason about.
Induction over data with an operator as parameter and recursive operators are out
of reach as well; the modules state the result of a loop in closed form instead
(where `_advance` stops, the least set a cascade or a worklist ends with).

## 6. Findings

* `ledger_revival` (`repositories/actions.py:197`): `update_submitted` does not
  look at the revocation again under its row lock. An update that read the
  document before another conversation revoked it writes it back without the mark,
  although `tools/local_enterprise.py:397` says that revoked is final.

Divergences met while modelling that no run checks:

* The room is checked, the ledger awaited, and only then `_booked` written
  (`local_enterprise.py` 250). Two overlapping calls book one room, although the comment
  at 251 gives that as the reason for the check.
* `respond()` asks the model a second time within its node (`domain_runtime.py` 167-183):
  the second text has the relay key of the first, so it continues a bubble
  that was complete, or is never shown if the first attempt ended in a tool call, although
  `flush` (`routes.py` 509) says that nothing is withheld at the end. `AnswerRelay`
  has the step; its properties leave such keys out.
* A batch that fails after one of its branches had finished: the panel counts the
  branch as merged (`matters.py` 115), the next turn recovers its task as interrupted.
* A plan that a run dies on while none of its tasks waits for the user is dropped by the
  next new request or resumption: tasks that ran without a draft go back to the queue
  (`recover_interrupted`, `models.py` 178), and a resumed task is back there already, with
  its draft; `open_matters` lists plans that wait, so nobody can name this one. (`broken` marks
  the plans runs have died on; `OpenMattersKept` and `NothingStranded` except those of
  them that wait for nothing.)
* A chat turn that looked for a run before another began and starts after it ended may
  discard the card that one left (`routes.py` 215-229). So may a retry of a turn: it is
  let through while the run it repeats is active (220-221), and if that run ends on a
  card while the retry waits for its snapshot, `start()` no longer knows the request_id
  (`runs.py` 303-307) and runs the message a second time. A thread may be deleted
  under a run that began after the check (1195). A confirmation whose card is gone by then
  resumes whatever the last run left unfinished (`ConfirmMisses`).
* `decide` streams what it says before it is checkpointed (`domain.py` 226, 231; the model's own
  text earlier still). If the run fails or stops in between, a repeated confirmation makes the
  decision again and names its text anew: what was streamed first stays on the
  user's screen until a reload and is in no conversation, although `models.py` 378 says that
  what was streamed enters it. (`NotesReachConversationOnce` excepts these texts as `lost`.)
* The summary of earlier turns takes the first `dropped` entries of a list that is itself
  cut to the last entries and has none for a turn that died in `understand`
  (`workflow.py` 252), so it can name the wrong turns; the comment at 246 says it cannot.
* A comment says that removed clauses stay in a collection once built (`policies.py` 89);
  the bootstrap deletes them (305), which `SyncIsExact` shows.
* The cache key of a policy search leaves out `limit` (`policies.py` 35): a search with a
  larger limit may get the shorter list.
* A bootstrap that fails half way leaves an empty, partial or old collection, from which
  searches then answer with success; `main.py` 69 expects them to fail.
* Extractions of two turns of a conversation run in the background and write in the order they
  finish (`workflow.py` 330): the older value may win, and a deleted memory can come back.
* A cancellation while `_record_usage` awaits publishes `cancelled` after `done`
  (`routes.py` 678 against 598-599).
* A cancellation or a failing call between INCRBY and EXPIRE leaves the counter of an address
  without expiry; so does an INCRBY that opens the window and whose answer is lost (195),
  also when the client library repeats it, for its total is then no longer its own amount. No
  later charge sets the expiry, so the address is refused for good,
  the outcome that the comment at `routes.py` 196 wants to avoid. (`expiry_adrift` and `unset`
  mark the two cases; `IpWindowIsFixed` says that there is no third.)
* A request id repeated after its run has ended executes again (`runs.py` 304
  against the docstring at 299).
* Last-Event-ID carries no run: after a new run began, an id of the old one skips
  the head of the new stream (`routes.py` 735 and 983).
* A client that falls out of the window gets `gap`, and the generator's end then
  cancels the run if it asked for cancel-on-disconnect (`routes.py` 759).
* Attaching to a run whose stream was reclaimed in between creates a new,
  never-ending stream (`runs.py` 167).
* `update_submitted` writes the whole payload: of two concurrent updates the
  second undoes fields it did not name (`actions.py` 203).
* A replayed revocation is refused as already revoked (`local_enterprise.py` 353),
  and a second call of one tool in one task returns the first result
  (`actions.py` 182).
* A booking revoked between its commit and its write to `_booked` stays
  occupied (`local_enterprise.py` 264).
* Two ratings whose handlers overlap between `save` and `submit` are sent in the
  other order; the tracing service then keeps the older one.
* A rating saved but not submitted when the process dies is never sent.
* The comment at `main.py` 121 says that the run manager is registered last;
  `feedback_sync` is registered after it (131). Nothing is lost by that: ratings come from requests, not from runs.
* `get_conversation` reads the checkpoint before it asks for the active run
  (`routes.py` 1151): a run that ends in between shows a half-finished state.

## 7. Not modelled

Authentication, configuration, schemas, the serialiser, metrics and logs have no
state that interacts. The demo user table is single-row reads and writes. The
text of prompts and answers, the read-only tools and the field schemas of the registry
are data; so is how a prompt's window and summary are cut (planned as `History`).
The memory table is written by the background extractions of `Lifespan`, which model
when they run but not what they write (planned as `Memories`). The correction
of invalid structured output ends in an accepted one, which is free in `Workflow`, or in a dead
run. Listing messages, actions and memories only reads. Evaluation
scripts, frontend (but for its bubbles) and deployment are outside the service.
