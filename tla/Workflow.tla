------------------------------ MODULE Workflow ------------------------------
(***************************************************************************)
(* The root graph of a conversation (graph/workflow.py with graph/state.py *)
(* and the plan types of core/models.py): understanding a turn against the *)
(* matters still open, planning, dispatching the task DAG, merging what    *)
(* the domain agents report, and what is left of all that when a run fails *)
(* or is cancelled half way.                                               *)
(*                                                                         *)
(* The state lives in a checkpoint that is written when a node (for        *)
(* domain_task: every branch of the batch) has finished, so an action is a *)
(* node.  A run that dies leaves the checkpoint as the last finished node  *)
(* wrote it; the results of finished branches, and the confirmation cards  *)
(* branches have stopped at, stay attached to the unfinished batch until a *)
(* new turn discards it.  RunManager admits one run at a time.             *)
(*                                                                         *)
(* What the models say is free: every relation, target, choice of tasks,   *)
(* plan and task outcome that the validators let through.                  *)
(***************************************************************************)
EXTENDS Integers, PlanRules

CONSTANTS
    PlanIds,       \* identities for plans; an id may return once it is unused
    Shapes,        \* bound: what the tasks of a plan may depend on
    Domains,       \* the domains a task can be handed to
    Modes,         \* the values parallel_tasks may be set to
    MaxHandoffs,   \* MAX_HANDOFFS
    None

ASSUME ConstantsAssumption ==
    /\ Shapes \subseteq Seq(SUBSET Nat) \ {<<>>}
    /\ Modes \subseteq BOOLEAN
    /\ MaxHandoffs \in Nat
    /\ None \notin PlanIds \union Domains

VARIABLES
    live,          \* a run is executing the graph
    node,          \* the node the checkpoint will execute next
    current,       \* plan_id, tasks and drafts of the state: the current plan
    shelved,       \* shelved_plans (a list whose order only the display uses)
    branch,        \* where each domain_task branch of the batch stands
    result,        \* domain_results: what the finished branches report
    parallel,      \* parallel_tasks of the process
    said,          \* something has followed the user's last message in `messages`
    broken         \* history: plans a run has died on since they were last
                   \* planned or resumed

vars == <<live, node, current, shelved, branch, result, parallel, said, broken>>
batchVars == <<branch, result>>

Nodes == {"end", "understand", "plan", "select_task", "domain_task",
          "apply_domain_result"}
Statuses == {"pending", "running", "waiting_input", "completed", "rejected", "failed"}
Unfinished == {"pending", "waiting_input"}
Dead == {"rejected", "failed"}
Outcomes == {"completed", "waiting_input", "failed", "rejected", "handed_off"}

Positions == UNION {DOMAIN deps : deps \in Shapes}

EmptyPlan(id) ==
    [id |-> id, deps |-> <<>>, status |-> <<>>, domain |-> <<>>,
     handedOff |-> <<>>, drafts |-> {}]

Tasks(p) == DOMAIN p.status
Having(p, set) == {t \in Tasks(p) : p.status[t] \in set}
SetStatus(p, chosen, value) ==
    [p EXCEPT !.status = [t \in Tasks(p) |-> IF t \in chosen THEN value ELSE @[t]]]

-----------------------------------------------------------------------------
(* Operations on a plan *)

\* recover_interrupted: a task left RUNNING by a dead run waits for the user if
\* it has a draft, and goes back to the queue otherwise.
Recovered(p) ==
    [p EXCEPT !.status = [t \in Tasks(p) |->
        IF @[t] = "running"
        THEN IF t \in p.drafts THEN "waiting_input" ELSE "pending"
        ELSE @[t]]]

\* Faulty variants of Requeued: nothing goes back; everything that is not done does.
RequeuedNothing(p) == p
RequeuedAll(p) == SetStatus(p, Tasks(p) \ Having(p, {"completed"}), "pending")

\* _requeue_waiting
Requeued(p) == SetStatus(p, Having(p, {"waiting_input"}), "pending")

\* A faulty variant of Blocked: what the user refused blocks nothing.
BlockedByFailure(p) ==
    {t \in Having(p, {"pending"}) : p.deps[t] \intersect Having(p, {"failed"}) # {}}

\* The least set of queued tasks that contains whatever depends on a dead task
\* or on a member of the set.
Blocked(p) ==
    LET queued == Having(p, {"pending"})
        Closed(S) == \A t \in queued :
            p.deps[t] \intersect (Having(p, Dead) \union S) # {} => t \in S
    IN  {t \in queued : \A S \in SUBSET queued : Closed(S) => t \in S}

\* _reject_blocked_tasks
RejectBlocked(p) == SetStatus(p, Blocked(p), "rejected")

\* open_matters: a plan is shown, and can be named, while a task waits.
Open(p) == Having(p, {"waiting_input"}) # {}

\* runnable_tasks
Runnable(p) ==
    {t \in Having(p, {"pending"}) : p.deps[t] \subseteq Having(p, {"completed"})}

\* select_task: all of them in parallel mode, else the first in plan order.
Selected(p) ==
    IF parallel THEN Runnable(p)
    ELSE {t \in Runnable(p) : \A u \in Runnable(p) : t <= u}

Without(id) == {p \in shelved : p.id # id}
WithReplaced(plan) == Without(plan.id) \union {plan}

\* The plan a turn finds: its own leftovers recovered.
Now == Recovered(current)

\* _target: the plan a continue, revise or cancel turn means, if any.
Target(id) ==
    IF \E p \in shelved : p.id = id THEN {p \in shelved : p.id = id}
    ELSE IF Open(Now) THEN {Now}
    ELSE IF \E p \in shelved : shelved = {p} THEN shelved
    ELSE {}

-----------------------------------------------------------------------------
Init ==
    /\ live = FALSE
    /\ node = "end"
    /\ \E id \in PlanIds : current = EmptyPlan(id)
    /\ shelved = {}
    /\ parallel \in Modes
    /\ branch = [t \in Positions |-> "none"]
    /\ result = [t \in Positions |-> None]
    /\ said = TRUE
    /\ broken = {}

\* A branch of the batch has stopped at a confirmation card that is still shown.
CardShown(t) == node = "domain_task" /\ branch[t] = "card"
CardPending == \E t \in Positions : CardShown(t)

\* New input, a message of the user, starts the graph from the top and discards
\* what an unfinished batch has attached.
NewInput ==
    /\ live' = TRUE
    /\ said' = FALSE
    /\ node' = "understand"
    /\ branch' = [t \in Positions |-> "none"]
    /\ result' = [t \in Positions |-> None]
    /\ UNCHANGED <<parallel, current, shelved, broken>>

\* POST /chat: refused while a card is open.
StartTurn == ~live /\ ~CardPending /\ NewInput

\* The card that is shown: the first in plan order.
FirstCard(t) == CardShown(t) /\ \A u \in Positions : CardShown(u) => t <= u

\* The confirmation endpoint.  The decision goes into `messages`.  Every branch
\* without a result runs again; the ones at another card stop there again.
Confirm ==
    /\ ~live
    /\ said' = TRUE
    /\ \E t \in Positions :
        FirstCard(t) /\ branch' = [branch EXCEPT ![t] = "answered"]
    /\ live' = TRUE
    /\ UNCHANGED <<parallel, node, current, shelved, result, broken>>

\* The node raises, the run is cancelled, or the process restarts: the
\* checkpoint stays, and an answered card is shown once more.
RunDies ==
    /\ live
    /\ live' = FALSE
    /\ branch' = [t \in Positions |-> IF branch[t] = "answered" THEN "card" ELSE branch[t]]
    /\ broken' = IF node = "understand" THEN broken ELSE broken \union {current.id}
    /\ UNCHANGED <<parallel, node, current, shelved, result, said>>

-----------------------------------------------------------------------------
(* understand *)

\* What the turn is about is the model's word (Understand, below, says which
\* words lead where).
Understanding ==
    /\ live /\ node = "understand"
    /\ UNCHANGED batchVars

\* The turn is over with this node; the `remember` node changes nothing here.
Replied == node' = "end" /\ live' = FALSE

\* Chit-chat; a cancellation or revision that means nothing open; a revision of
\* queued tasks, which changes their wording only: a reply, and no change but
\* the recovered statuses.
DirectReply(reply) ==
    /\ Understanding
    /\ Replied
    /\ said' = reply
    /\ current' = Now
    /\ UNCHANGED <<shelved, broken>>

\* Faulty variants of Resume: the current plan gives way to the resumed one;
\* the resumed plan stays on the shelf.
ResumeDroppingCurrent(id) ==
    /\ Understanding
    /\ \E p \in Target(id) :
        /\ current' = Requeued(p)
        /\ shelved' = Without(p.id)
        /\ broken' = broken \ {p.id}
    /\ node' = "select_task"
    /\ UNCHANGED <<live, said>>
ResumeCopying(id) ==
    /\ Understanding
    /\ \E p \in Target(id) :
        /\ current' = Requeued(p)
        /\ shelved' = IF p.id # current.id /\ Open(Now) THEN shelved \union {Now}
                      ELSE shelved
        /\ broken' = broken \ {p.id}
    /\ node' = "select_task"
    /\ UNCHANGED <<live, said>>

\* _resume: continue, or a revision that hits a task being asked about.  A
\* shelved plan changes places with the current one, if that is open.
Resume(id) ==
    /\ Understanding
    /\ \E p \in Target(id) :
        /\ current' = Requeued(p)
        /\ shelved' = IF p.id = current.id THEN shelved
                      ELSE IF Open(Now) THEN Without(p.id) \union {Now}
                      ELSE Without(p.id)
        /\ broken' = broken \ {p.id}
    /\ node' = "select_task"
    /\ UNCHANGED <<live, said>>

\* What _cancel leaves of the plan: the chosen tasks and what needs them are
\* rejected; a shelved plan that would no longer wait for anything is given up
\* as a whole.
Abandoned(p, chosen) ==
    LET q == RejectBlocked(SetStatus(p, chosen, "rejected"))
        whole == p.id # current.id /\ ~Open(q)
        r == IF whole THEN SetStatus(q, Having(p, Unfinished), "rejected") ELSE q
    IN  [r EXCEPT !.drafts = @ \ Having(r, {"rejected"})]

\* A faulty variant of MovesOn: the turn ends with the cancellation.
MovesOnNever(p) == FALSE

\* The task asked about is given up and others are queued: they are run now,
\* since nobody could refer to them later.
MovesOn(p) == ~Open(p) /\ Having(p, {"pending"}) # {}

\* _cancel.  `ids` are cancel_task_ids; none means the whole matter.  The reply
\* says what became of it.
Cancel(id, ids) ==
    /\ Understanding
    /\ said' = TRUE
    /\ UNCHANGED broken
    /\ \E p \in Target(id) :
        LET unfinished == Having(p, Unfinished)
            chosen == IF ids = {} THEN unfinished ELSE ids \intersect unfinished
            rest == Abandoned(p, chosen)
        IN  IF chosen = {} THEN
                Replied /\ current' = Now /\ UNCHANGED shelved
            ELSE IF p.id # current.id THEN
                /\ Replied
                /\ current' = Now
                /\ shelved' = IF Having(rest, Unfinished) = {} THEN Without(p.id)
                              ELSE WithReplaced(rest)
            ELSE
                /\ current' = rest
                /\ UNCHANGED shelved
                /\ IF MovesOn(rest)
                   THEN node' = "select_task" /\ UNCHANGED live
                   ELSE Replied

\* A new request, or a continue that means nothing: an open current plan is
\* shelved and an empty one takes its place.
NewPlan ==
    /\ Understanding
    /\ shelved' = IF Open(Now) THEN shelved \union {Now} ELSE shelved
    /\ \E id \in PlanIds \ ({current.id} \union {p.id : p \in shelved}) :
        current' = EmptyPlan(id)
    /\ node' = "plan"
    /\ UNCHANGED <<live, said, broken>>

-----------------------------------------------------------------------------
(* plan, select_task, domain_task, apply_domain_result *)

\* context.plan(): the plans the outlines of a turn make.
OutlinedPlans(deps) ==
    {[deps |-> deps, domain |-> [t \in DOMAIN o |-> o[t].domain]] :
     o \in {o \in Outlines(Len(deps), Domains) :
             NeedsAreEarlier(o) /\ Dependencies(o) = deps}}

\* Without outlines the planner gives a plan.
PlannerPlans(deps) ==
    {p \in [deps : {deps}, domain : [DOMAIN deps -> Domains]] : IsTaskPlan(deps)}

Planned == UNION {OutlinedPlans(deps) \union PlannerPlans(deps) : deps \in Shapes}

\* plan: the tasks, each in the queue.
Plan ==
    /\ live /\ node = "plan"
    /\ \E p \in Planned :
        current' = [current EXCEPT
                        !.deps = p.deps, !.domain = p.domain,
                        !.status = [t \in DOMAIN p.deps |-> "pending"],
                        !.handedOff = [t \in DOMAIN p.deps |-> <<>>]]
    /\ broken' = broken \ {current.id}
    /\ node' = "select_task"
    /\ UNCHANGED <<live, shelved, batchVars, said>>

\* select_task with something to run: dispatch the batch.
SelectTask ==
    /\ live /\ node = "select_task"
    /\ Selected(current) # {}
    /\ current' = SetStatus(current, Selected(current), "running")
    /\ branch' = [t \in Positions |->
                    IF t \in Selected(current) THEN "running" ELSE "none"]
    /\ result' = [t \in Positions |-> None]
    /\ node' = "domain_task"
    /\ UNCHANGED <<live, shelved, said, broken>>

\* select_task with nothing to run: the turn is over.
SelectNothing ==
    /\ live /\ node = "select_task"
    /\ Selected(current) = {}
    /\ Replied
    /\ UNCHANGED <<current, shelved, batchVars, said, broken>>

\* A branch of the batch stops at a confirmation card.
AskConfirmation(t) ==
    /\ live /\ node = "domain_task"
    /\ branch[t] \in {"running", "answered"}
    /\ branch' = [branch EXCEPT ![t] = "card"]
    /\ UNCHANGED <<live, node, current, shelved, result, said, broken>>

\* A branch of the batch reports.  Only a task with an answered card can be
\* rejected, and one that has written something can no longer be handed off.
BranchReports(t) ==
    /\ live /\ node = "domain_task"
    /\ branch[t] \in {"running", "answered"}
    /\ \E outcome \in Outcomes, to \in Domains \union {None} :
        /\ outcome = "rejected" => branch[t] = "answered"
        /\ outcome = "handed_off" => branch[t] = "running" /\ to # current.domain[t]
        /\ outcome # "handed_off" => to = None
        /\ result' = [result EXCEPT ![t] = [status |-> outcome, to |-> to]]
    /\ branch' = [branch EXCEPT ![t] = "done"]
    /\ UNCHANGED <<live, node, current, shelved, said, broken>>

InBatch == {t \in Positions : branch[t] # "none"}

\* Every branch has reported: the superstep commits.
BatchDone ==
    /\ live /\ node = "domain_task"
    /\ \A t \in InBatch : branch[t] = "done"
    /\ node' = "apply_domain_result"
    /\ UNCHANGED <<live, current, shelved, batchVars, said, broken>>

\* The unfinished branches all stand at a card: the run ends there.
BatchInterrupted ==
    /\ live /\ node = "domain_task" /\ CardPending
    /\ \A t \in InBatch : branch[t] \in {"done", "card"}
    /\ live' = FALSE
    /\ UNCHANGED <<node, current, shelved, batchVars, said, broken>>

\* _reroute refuses: no target, been there, or too often.
HandoffRefused(p, t, to) ==
    \/ to = None
    \/ to = p.domain[t] \/ \E i \in DOMAIN p.handedOff[t] : p.handedOff[t][i] = to
    \/ Len(p.handedOff[t]) >= MaxHandoffs

\* The status a result gives its task.
StatusOf(p, t) ==
    IF result[t].status # "handed_off" THEN result[t].status
    ELSE IF HandoffRefused(p, t, result[t].to) THEN "failed" ELSE "pending"

\* Faulty variants of Merged: a task forgets where it has been; the drafts of
\* finished tasks stay.
MergedForgetful(p) ==
    LET rerouted == {t \in InBatch :
                        result[t].status = "handed_off" /\ StatusOf(p, t) = "pending"}
        asking == {t \in InBatch : result[t].status = "waiting_input"}
    IN  RejectBlocked([p EXCEPT
            !.status = [t \in Tasks(p) |-> IF t \in InBatch THEN StatusOf(p, t) ELSE @[t]],
            !.domain = [t \in Tasks(p) |-> IF t \in rerouted THEN result[t].to ELSE @[t]],
            !.drafts = (@ \ InBatch) \union asking])
MergedKeepingDrafts(p) ==
    RejectBlocked([p EXCEPT
        !.status = [t \in Tasks(p) |-> IF t \in InBatch THEN StatusOf(p, t) ELSE @[t]],
        !.drafts = @ \union {t \in InBatch : result[t].status = "waiting_input"}])

\* _apply and _reroute for the whole batch.  The code goes through the results
\* in plan order; no task of a batch depends on another, so the order shows in
\* the answers only.
Merged(p) ==
    LET rerouted == {t \in InBatch :
                        result[t].status = "handed_off" /\ StatusOf(p, t) = "pending"}
        asking == {t \in InBatch : result[t].status = "waiting_input"}
    IN  RejectBlocked([p EXCEPT
            !.status = [t \in Tasks(p) |-> IF t \in InBatch THEN StatusOf(p, t) ELSE @[t]],
            !.domain = [t \in Tasks(p) |-> IF t \in rerouted THEN result[t].to ELSE @[t]],
            !.handedOff = [t \in Tasks(p) |->
                IF t \in rerouted THEN Append(@[t], p.domain[t]) ELSE @[t]],
            !.drafts = (@ \ InBatch) \union asking])

\* A result speaks to the user, unless they have refused the card or the task
\* goes on elsewhere.
Speaks(t) == StatusOf(current, t) \notin {"rejected", "pending"}

\* apply_domain_result, then after_domain_result.
ApplyDomainResult ==
    /\ live /\ node = "apply_domain_result"
    /\ current' = Merged(current)
    /\ said' = (said \/ \E t \in InBatch : Speaks(t))
    /\ branch' = [t \in Positions |-> "none"]
    /\ result' = [t \in Positions |-> None]
    /\ IF Open(Merged(current)) THEN Replied
       ELSE node' = "select_task" /\ UNCHANGED live
    /\ UNCHANGED <<shelved, broken>>

-----------------------------------------------------------------------------
\* What the Supervisor may say of a turn, as far as understand looks at it: a
\* cancellation is a cancellation, a reply counts if nobody else speaks, and a
\* continue resumes whatever it revises.
Resolved ==
    {[relation |-> c.relation,
      planning |-> c.planning /\ c.relation # "cancel",
      reply |-> c.reply /\ ~c.planning /\ c.relation \in {"new", "continue"},
      revisions |-> IF c.relation = "revise" THEN c.revisions ELSE {}] :
     c \in {c \in Resolutions(Positions) : IsResolution(c)}}

\* understand, for a resolution that relates the turn to the plan `id`.
Related(c, id) ==
    LET meant == Target(id)
        corrects == \E p \in meant : c.revisions \intersect Having(p, {"waiting_input"}) # {}
    IN  \/ c.relation = "continue" /\ Resume(id)
        \/ c.relation = "revise" /\ corrects /\ Resume(id)
        \/ c.relation = "revise" /\ ~corrects /\ DirectReply(TRUE)
        \/ c.relation = "cancel" /\ \E ids \in SUBSET Positions : Cancel(id, ids)
        \/ c.relation = "cancel" /\ meant = {} /\ DirectReply(TRUE)

\* understand: a continue that means nothing is taken as new.
Understand ==
    \E c \in Resolved :
        \/ \E id \in PlanIds \union {None} : Related(c, id)
        \/ /\ \/ c.relation = "new"
              \/ c.relation = "continue" /\ \E id \in PlanIds \union {None} : Target(id) = {}
           /\ IF c.planning THEN NewPlan ELSE DirectReply(c.reply)

Work ==
    /\ \/ Understand
       \/ Plan
       \/ SelectTask
       \/ SelectNothing
       \/ BatchDone
       \/ BatchInterrupted
       \/ ApplyDomainResult
       \/ \E t \in Positions : AskConfirmation(t) \/ BranchReports(t)
    /\ UNCHANGED parallel

Next == StartTurn \/ Confirm \/ RunDies \/ Work

Spec == Init /\ [][Next]_vars

\* A run that is not killed goes on: nodes are executed, and the models answer
\* within their iteration limit and timeout.
FairSpec == Spec /\ WF_vars(Work)

-----------------------------------------------------------------------------
\* A plan as the code builds it: one entry per task everywhere.
PlansOver(deps) ==
    [id : PlanIds, deps : {deps}, status : [DOMAIN deps -> Statuses],
     domain : [DOMAIN deps -> Domains], handedOff : [DOMAIN deps -> Seq(Domains)],
     drafts : SUBSET DOMAIN deps]
IsPlan(p) == \E deps \in Shapes \union {<<>>} : p \in PlansOver(deps)

TypeOK ==
    /\ live \in BOOLEAN /\ parallel \in Modes
    /\ node \in Nodes
    /\ IsPlan(current) /\ \A p \in shelved : IsPlan(p)
    /\ branch \in [Positions -> {"none", "running", "card", "answered", "done"}]
    /\ result \in [Positions -> {None} \union
                    [status : Outcomes, to : Domains \union {None}]]
    /\ said \in BOOLEAN
    /\ broken \subseteq PlanIds

Plans == {current} \union shelved

\* A plan is in one place: the swaps between the current plan and the shelf
\* neither copy one nor leave two under the name the Supervisor refers to.
EachPlanOnce ==
    /\ \A p \in shelved : p.id # current.id
    /\ \A p, q \in shelved : p.id = q.id => p = q

\* A task that has begun (or waits, or was ever asked about) has all its
\* dependencies completed, and nothing is queued behind a dead task, whatever
\* was handed off, cancelled, resumed or recovered in between.
DependenciesHold ==
    \A p \in Plans : \A t \in Tasks(p) :
        /\ p.status[t] \in {"running", "waiting_input", "completed"} \/ t \in p.drafts
            => p.deps[t] \subseteq Having(p, {"completed"})
        /\ p.status[t] = "pending" => p.deps[t] \intersect Having(p, Dead) = {}

\* Nothing is left where nobody will look: a shelved plan waits for the user, so
\* it is listed as a matter, and no run works on it; between turns the current
\* plan has queued tasks only if it waits too, unless a run died under it.
NothingStranded ==
    /\ \A p \in shelved : Open(p) /\ Having(p, {"running"}) = {}
    /\ ~live /\ ~CardPending /\ current.id \notin broken /\ ~Open(current)
            => Having(current, {"pending", "running"}) = {}

\* A turn that ends leaves something after the user's message, a reply or the
\* decision about a card: two messages of the user stand next to each other only
\* if a run died between them, which is what _mark_unanswered tells the model.
EveryTurnSpeaks == node = "end" => said

\* Every task that waits has the draft it will be resumed with, and no draft
\* outlives its task.
DraftsBelong ==
    \A p \in Plans :
        /\ Having(p, {"waiting_input"}) \subseteq p.drafts
        /\ p.drafts \subseteq Having(p, {"waiting_input", "running", "pending"})

\* What a task ended in is final: no turn, failure or recovery reopens it.
EndedIsFinal ==
    [][\A p \in Plans, q \in Plans' :
        p.id = q.id => \A t \in Tasks(p) :
            p.status[t] \in {"completed", "rejected", "failed"} =>
                t \in DOMAIN q.status /\ q.status[t] = p.status[t]]_vars

\* A plan with something left to do stays with the conversation, with its tasks,
\* until it is worked off or the user gives up that plan: it may wait, be shelved,
\* be resumed and be queued again in between, through any number of turns.  The
\* exception is a plan that a run died on while nothing of it waits for the user:
\* no turn can mean it, so the next plan or resumption takes its place (README).
OpenMattersKept ==
    [][\A p \in shelved \union {Now} :
        Having(p, Unfinished) # {} /\ (Open(p) \/ p.id \notin broken) =>
            \/ \E q \in Plans' : q.id = p.id /\ q.deps = p.deps
            \/ \E id \in PlanIds \union {None}, ids \in SUBSET Positions :
                p \in Target(id) /\ Cancel(id, ids)]_vars

\* Every turn ends: in a reply, at a card, or with the run dead.
TurnEnds == live ~> ~live
=============================================================================
