----------------------------- MODULE AnswerRelay -----------------------------
(***************************************************************************)
(* The answers of one run on their way to the client: _AnswerRelay and     *)
(* _publish_task_done of api/routes.py, as _execute_run feeds them, and    *)
(* what the client makes of the events (frontend/src/main.tsx).  Branches  *)
(* of a batch write at the same time; the client appends every token to    *)
(* its last bubble, so the relay lets one answer through at a time.        *)
(*                                                                         *)
(* The parts of the graph's stream arrive in the order they were written   *)
(* and publish() does not suspend, so that what is written and what the    *)
(* relay does with it is one step.  A text is the number of its pieces.    *)
(* How the agents come to speak is graph/domain.py's matter (DomainTask):  *)
(* here a branch makes model calls, says something whole, stops at a card  *)
(* or reports, in any order the graph allows.                              *)
(***************************************************************************)
EXTENDS Naturals, Sequences

CONSTANTS
    Tasks,
    Hold,          \* HOLD_CHARS, in pieces
    MaxCalls,      \* bound: user-visible model calls of a task
    MaxText,       \* bound: pieces of one call
    MaxWholes,     \* bound: texts of the run that are pushed whole
    None

ASSUME ConstantsAssumption ==
    /\ Hold \in Nat \ {0}
    /\ MaxCalls \in Nat /\ MaxText \in Nat /\ MaxWholes \in Nat

\* A call is known by the checkpoint namespace of its node; a whole text gets
\* a number of its own.
Keys == Tasks \X ((({"call"} \X (1..MaxCalls))) \union ({"whole"} \X (1..MaxWholes)))

ASSUME NoneAssumption == None \notin Keys

VARIABLES
    answers,       \* _answers: text, sent, finished; no text: no entry yet
    queue,         \* _queue
    suppressed,    \* _suppressed
    active,        \* _active
    wholes,        \* _wholes
    bubbles,       \* the client's bubbles of this turn
    taskDone,      \* tasks whose task_done has been published
    branch,        \* where each task's branch stands
    calls,         \* model calls a task has made
    run,           \* "graph", "settling", or how the run ended
    spoken,        \* history: the pieces a call has written for the user
    again          \* history: calls repeated within their node

relay == <<answers, queue, active>>
vars == <<relay, suppressed, wholes, bubbles, taskDone, branch, calls, run, spoken, again>>

Branches == {"off", "idle", "calling", "card", "reported", "handed_off"}
Silence == [text |-> 0, sent |-> 0, finished |-> FALSE]

Call(t) == <<t, <<"call", calls[t]>>>>
Calling(t) == run = "graph" /\ branch[t] = "calling"
Idle(t) == run = "graph" /\ branch[t] = "idle"
Batch == {t \in Tasks : branch[t] # "off"}

Init ==
    /\ answers = [k \in Keys |-> Silence]
    /\ queue = <<>>
    /\ suppressed = {}
    /\ active = None
    /\ wholes = 0
    /\ bubbles = <<>>
    /\ taskDone = {}
    /\ branch = [t \in Tasks |-> "off"]
    /\ calls = [t \in Tasks |-> 0]
    /\ run = "graph"
    /\ spoken = [k \in Keys |-> 0]
    /\ again = {}

-----------------------------------------------------------------------------
(* The client *)

\* answer_start opens a bubble and the token that follows fills it.
Bubble(k, n) == [key |-> k, got |-> n, mixed |-> FALSE]

\* A token goes to the last bubble, whoever wrote it.
Appended(k, n) ==
    LET last == Len(bubbles)
    IN  [bubbles EXCEPT ![last] = [key |-> @.key, got |-> @.got + n,
                                   mixed |-> @.mixed \/ @.key # k]]

\* The events for the answers in `out`: the one that is active goes on, the
\* others start.
Received(a, out) ==
    LET goesOn == out # <<>> /\ active = out[1]
        fresh == IF goesOn THEN Tail(out) ELSE out
    IN  (IF goesOn THEN Appended(out[1], a[out[1]].text - a[out[1]].sent) ELSE bubbles)
            \o [i \in 1..Len(fresh) |->
                    Bubble(fresh[i], a[fresh[i]].text - a[fresh[i]].sent)]

-----------------------------------------------------------------------------
(* The relay *)

\* A faulty variant of Advance: whoever has written enough speaks, first or not.
AdvanceAnyone(a, q) ==
    \E i \in 1..Len(q) :
        /\ a[q[i]].finished \/ a[q[i]].text >= Hold
        /\ queue' = q
        /\ active' = q[i]
        /\ answers' = [a EXCEPT ![q[i]].sent = a[q[i]].text]
        /\ bubbles' = IF a[q[i]].sent > 0 /\ bubbles # <<>>
                      THEN Appended(q[i], a[q[i]].text - a[q[i]].sent)
                      ELSE Append(bubbles, Bubble(q[i], a[q[i]].text))

\* _advance, the loop as a whole: the finished answers at the front go out and
\* leave, then the next one if it is active or has written enough.
Advance(a, q) ==
    \E n \in 0..Len(q) :
        LET next == n < Len(q) /\ (active = q[n + 1] \/ a[q[n + 1]].text >= Hold)
            out == SubSeq(q, 1, IF next THEN n + 1 ELSE n)
        IN  /\ \A i \in 1..n : a[q[i]].finished
            /\ n < Len(q) => ~a[q[n + 1]].finished
            /\ queue' = SubSeq(q, n + 1, Len(q))
            /\ active' = IF next THEN q[n + 1] ELSE None
            /\ answers' = [k \in Keys |-> IF \E i \in 1..Len(out) : out[i] = k
                                          THEN [a[k] EXCEPT !.sent = a[k].text]
                                          ELSE a[k]]
            /\ bubbles' = Received(a, out)

\* chunk() with n pieces of text; `last` marks the end of the model call.
Chunk(k, n, last) ==
    IF k \in suppressed \/ answers[k].text + n = 0
    THEN UNCHANGED <<relay, bubbles>>
    ELSE Advance([answers EXCEPT ![k].text = @ + n, ![k].finished = @ \/ last],
                 IF answers[k].text = 0 THEN Append(queue, k) ELSE queue)

\* chunk() with the beginning of a tool call.
ToolCallChunk(k) ==
    /\ suppressed' = suppressed \union {k}
    /\ IF k \in suppressed \/ answers[k].text = 0
       THEN UNCHANGED <<relay, bubbles>>
       ELSE Advance([answers EXCEPT ![k].finished = TRUE], queue)

\* whole()
Whole(k) ==
    Advance([answers EXCEPT ![k] = [text |-> 1, sent |-> 0, finished |-> TRUE]],
            Append(queue, k))

\* flush()
Flush ==
    Advance([k \in Keys |-> [answers[k] EXCEPT !.finished = @ \/ answers[k].text > 0]],
            queue)

-----------------------------------------------------------------------------
(* The run *)

\* select_task dispatches a batch.
Dispatch ==
    /\ run = "graph" /\ Batch = {}
    /\ \E chosen \in SUBSET (Tasks \ taskDone) :
        /\ chosen # {}
        /\ branch' = [t \in Tasks |-> IF t \in chosen THEN "idle" ELSE "off"]
    /\ UNCHANGED <<relay, suppressed, wholes, bubbles, taskDone, calls, run, spoken, again>>

\* The node of a branch calls its model, visibly.
BeginCall(t) ==
    /\ Idle(t) /\ calls[t] < MaxCalls
    /\ branch' = [branch EXCEPT ![t] = "calling"]
    /\ calls' = [calls EXCEPT ![t] = @ + 1]
    /\ UNCHANGED <<relay, suppressed, wholes, bubbles, taskDone, run, spoken, again>>

\* respond() found the answer unusable and calls once more, in the same node.
CallAgain(t) ==
    /\ Idle(t) /\ calls[t] > 0 /\ Call(t) \notin again
    /\ branch' = [branch EXCEPT ![t] = "calling"]
    /\ again' = again \union {Call(t)}
    /\ UNCHANGED <<relay, suppressed, wholes, bubbles, taskDone, calls, run, spoken>>

\* The model streams a piece of text, the end of the call, or both.
StreamText(t) ==
    /\ Calling(t)
    /\ \E n \in {0, 1}, last \in BOOLEAN :
        /\ spoken[Call(t)] + n <= MaxText
        /\ Chunk(Call(t), n, last)
        /\ spoken' = IF Call(t) \in suppressed THEN spoken
                     ELSE [spoken EXCEPT ![Call(t)] = @ + n]
        /\ branch' = IF last THEN [branch EXCEPT ![t] = "idle"] ELSE branch
    /\ UNCHANGED <<suppressed, wholes, taskDone, calls, run, again>>

\* The model streams a tool call.
StreamToolCall(t) ==
    /\ Calling(t)
    /\ ToolCallChunk(Call(t))
    /\ UNCHANGED <<wholes, taskDone, branch, calls, run, spoken, again>>

\* The call returns without a piece marked as the last one.
CallReturns(t) ==
    /\ Calling(t)
    /\ branch' = [branch EXCEPT ![t] = "idle"]
    /\ UNCHANGED <<relay, suppressed, wholes, bubbles, taskDone, calls, run, spoken, again>>

\* What did not come from the model's text: the message of a write tool, the
\* question of request_information.
SayWhole(t) ==
    /\ Idle(t) /\ wholes < MaxWholes
    /\ LET k == <<t, <<"whole", wholes + 1>>>>
       IN  Whole(k) /\ spoken' = [spoken EXCEPT ![k] = 1]
    /\ wholes' = wholes + 1
    /\ UNCHANGED <<suppressed, taskDone, branch, calls, run, again>>

\* The branch stops at a confirmation card, or ends.
EndBranch(t) ==
    /\ Idle(t)
    /\ \E end \in {"card", "reported", "handed_off"} : branch' = [branch EXCEPT ![t] = end]
    /\ UNCHANGED <<relay, suppressed, wholes, bubbles, taskDone, calls, run, spoken, again>>

\* A faulty variant of TaskDone: what is held back stays held back.
TaskDoneUnflushed ==
    /\ taskDone' = taskDone \union {t \in Tasks : branch[t] = "reported"}
    /\ UNCHANGED <<relay, bubbles>>

\* _publish_task_done for the tasks of the batch, a flush before each: nothing
\* is written between them.
TaskDone ==
    /\ taskDone' = taskDone \union {t \in Tasks : branch[t] = "reported"}
    /\ IF \E t \in Tasks : branch[t] = "reported" THEN Flush ELSE UNCHANGED <<relay, bubbles>>

\* apply_domain_result: the whole batch has reported.
MergeBatch ==
    /\ run = "graph" /\ Batch # {}
    /\ \A t \in Batch : branch[t] \in {"reported", "handed_off"}
    /\ TaskDone
    /\ branch' = [t \in Tasks |-> "off"]
    /\ UNCHANGED <<suppressed, wholes, calls, run, spoken, again>>

\* The stream of parts ends: no batch is left, or the rest of it waits at cards.
GraphEnds ==
    /\ run = "graph"
    /\ \A t \in Batch : branch[t] \in {"card", "reported", "handed_off"}
    /\ Batch # {} => \E t \in Batch : branch[t] = "card"
    /\ run' = "settling"
    /\ Flush
    /\ UNCHANGED <<suppressed, wholes, taskDone, branch, calls, spoken, again>>

\* The snapshot has been read.
PublishDone ==
    /\ run = "settling"
    /\ run' = "done"
    /\ UNCHANGED <<relay, suppressed, wholes, bubbles, taskDone, branch, calls, spoken, again>>

\* The graph or the snapshot raises, or the run is cancelled: nothing held is
\* let out any more.
RunFails ==
    /\ run \in {"graph", "settling"}
    /\ run' = "failed"
    /\ UNCHANGED <<relay, suppressed, wholes, bubbles, taskDone, branch, calls, spoken, again>>

Next ==
    \/ Dispatch
    \/ \E t \in Tasks :
        \/ BeginCall(t)
        \/ CallAgain(t)
        \/ StreamText(t)
        \/ StreamToolCall(t)
        \/ CallReturns(t)
        \/ SayWhole(t)
        \/ EndBranch(t)
    \/ MergeBatch
    \/ GraphEnds
    \/ PublishDone
    \/ RunFails

Spec == Init /\ [][Next]_vars

-----------------------------------------------------------------------------
TypeOK ==
    /\ answers \in [Keys -> [text : Nat, sent : Nat, finished : BOOLEAN]]
    /\ queue \in Seq(Keys)
    /\ suppressed \subseteq Keys
    /\ active \in Keys \union {None}
    /\ wholes \in 0..MaxWholes
    /\ bubbles \in Seq([key : Keys, got : Nat, mixed : BOOLEAN])
    /\ taskDone \subseteq Tasks
    /\ branch \in [Tasks -> Branches]
    /\ calls \in [Tasks -> 0..MaxCalls]
    /\ run \in {"graph", "settling", "done", "failed"}
    /\ spoken \in [Keys -> Nat]
    /\ again \subseteq Keys

\* However the branches' pieces interleave, every bubble holds the text of one
\* answer, and no answer is torn into two bubbles.
OneAnswerPerBubble ==
    /\ \A i \in 1..Len(bubbles) : ~bubbles[i].mixed
    /\ \A i, j \in 1..Len(bubbles) : bubbles[i].key = bubbles[j].key => i = j

\* What the client has of an answer.
IsShown(k, n) ==
    IF n = 0 THEN \A i \in 1..Len(bubbles) : bubbles[i].key # k
    ELSE \E i \in 1..Len(bubbles) : bubbles[i].key = k /\ bubbles[i].got = n

\* When a task is announced as done, and when the run is, the client has every
\* word that was meant for it, whatever was queued or held at that moment and
\* whether or not the model marks the end of its calls.  A call that was
\* repeated inside its node is excepted: what its second attempt says goes to
\* an answer that is already closed (see the README).
NothingHeldBack ==
    \A k \in Keys \ again :
        k[1] \in taskDone \/ run = "done" => IsShown(k, spoken[k])
=============================================================================
