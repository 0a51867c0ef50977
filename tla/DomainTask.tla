------------------------------ MODULE DomainTask ------------------------------
(***************************************************************************)
(* One task in the hands of its domain agent (graph/domain.py): the model  *)
(* decides, a write waits for the user's confirmation, a tool runs, and    *)
(* the task ends in a result.  An action is a node of the graph; the state *)
(* is checkpointed after each.  What the language model says and what a    *)
(* tool returns are arbitrary.  What a node does and its checkpoint are two *)
(* things: a run that stops in between leaves the task at that node, and   *)
(* the confirmation that resumed its batch, given again, runs it again.    *)
(***************************************************************************)
EXTENDS Naturals, Sequences, SequencesExt

CONSTANTS Reads, Writes,   \* the domain's tools, by risk
          Ask, Handoff,    \* request_information (terminal) and handoff_task
          MaxIterations,   \* MAX_ITERATIONS
          MaxFaults,       \* stopped or failed executions of this task (bound)
          None

Tools == Reads \cup Writes \cup {Ask, Handoff}

ASSUME ToolsAssumption == Reads \cap Writes = {} /\ Ask \notin Writes /\ Handoff \notin Writes
ASSUME LimitAssumption == MaxIterations \in Nat \ {0} /\ MaxFaults \in Nat

VARIABLES node,        \* the node to run next, or how the task ended
          iterations, executed, failed, rejected, waiting,
          handoff, retry, answer,
          call,        \* pending_tool_call; its id is the decision that made it
          approved,    \* confirmation_approved
          card,        \* pending_confirmation with the notes it carries
          notes,       \* domain_notes: said while calling tools, not yet delivered
          results,     \* domain_tool_results
          result,      \* domain_result
          outcome,     \* outcome of the tool, before its checkpoint
          conversation,\* how often the note of an id stands in the conversation
          said,        \* history: notes the user has been streamed
          lost,        \* history: those of them whose decision was never checkpointed
          granted,     \* history: calls the user approved
          ran,         \* history: writes that ran
          faults

control == <<iterations, executed, failed, rejected, waiting, handoff, retry, answer>>
history == <<said, lost, granted, ran>>
vars == <<node, control, call, approved, card, notes, results, result, outcome,
          conversation, history, faults>>

\* A decision is counted by domain_iterations, which a lost execution does not
\* advance; a note (AgentNote) has an id of its own in every execution.
Decisions == 1..MaxIterations
Ids       == [made: Decisions, try: 0..MaxFaults]
NewId     == [made |-> iterations + 1, try |-> faults]

Calls    == [tool: Tools, id: Decisions]
Cards    == [id: Decisions, notes: Seq(Ids)]
Statuses == {"waiting_input", "rejected", "failed", "completed", "handed_off"}
Ended    == {"end", "raised"}

TypeOK ==
  /\ node \in {"initialize", "decide", "confirm_tool", "execute_tool", "finish", "respond"} \cup Ended
  /\ iterations \in 0..MaxIterations
  /\ executed \in BOOLEAN /\ failed \in BOOLEAN /\ rejected \in BOOLEAN /\ waiting \in BOOLEAN
  /\ handoff \in BOOLEAN /\ retry \in BOOLEAN /\ answer \in BOOLEAN /\ approved \in BOOLEAN
  /\ call \in Calls \cup {None}
  /\ card = None \/ card \in Cards
  /\ notes \in Seq(Ids) /\ conversation \in [Ids -> Nat]
  /\ results \in Seq([tool: Tools, success: BOOLEAN])
  /\ result = None \/ result \in [status: Statuses, notes: Seq(Ids), artifact: SUBSET Tools]
  /\ outcome \in BOOLEAN \cup {None}
  /\ said \subseteq Ids /\ lost \subseteq Ids
  /\ granted \subseteq Decisions /\ ran \subseteq Decisions
  /\ faults \in 0..MaxFaults

Init ==
  /\ node = "initialize"
  /\ iterations = 0
  /\ executed = FALSE /\ failed = FALSE /\ rejected = FALSE /\ waiting = FALSE
  /\ handoff = FALSE /\ retry = FALSE /\ answer = FALSE /\ approved = FALSE
  /\ call = None /\ card = None /\ notes = <<>> /\ results = <<>>
  /\ result = None /\ outcome = None /\ conversation = [n \in Ids |-> 0]
  /\ said = {} /\ lost = {} /\ granted = {} /\ ran = {} /\ faults = 0

\* the tools that have produced something (artifact is keyed by tool name)
Artifact == {results[i].tool : i \in {j \in DOMAIN results : results[j].success}}

\* [mutant] a delivered note gets a new id each time
DeliverAgain(ids) ==
  [n \in Ids |-> conversation[n] + IF n \in Range(ids) THEN 1 ELSE 0]

\* messages of the conversation are keyed by id: one that is there is not added again
Deliver(ids) ==
  [n \in Ids |-> IF n \in Range(ids) /\ conversation[n] = 0 THEN 1 ELSE conversation[n]]

\* _handoff_error: not after a successful write
HandoffAllowed == Artifact \cap Writes = {}

Initialize ==
  /\ node = "initialize"
  /\ node' = "decide"
  /\ UNCHANGED <<control, call, approved, card, notes, results, result, outcome,
                 conversation, history, faults>>

(***************************************************************************)
(* decide.  A note is what the model says while it calls a tool, once some *)
(* tool has run; a write takes the notes so far with it on its card.       *)
(***************************************************************************)
Noted(speaks) == IF executed /\ speaks THEN Append(notes, NewId) ELSE notes

\* the text is streamed while the decision is made, before its checkpoint
Streamed(speaks) == IF executed /\ speaks THEN said \cup {NewId} ELSE said

\* [mutant] a write runs without its card
AfterDecideUnasked(c) == "execute_tool"

\* after_decide for a valid call
AfterDecide(c) == IF c.tool \in Writes THEN "confirm_tool" ELSE "execute_tool"

DecideOverLimit ==
  /\ node = "decide"
  /\ iterations = MaxIterations
  /\ node' = "raised"
  /\ UNCHANGED <<control, call, approved, card, notes, results, result, outcome,
                 conversation, history, faults>>

\* [mutant] a refused call restarts the count
DecideInvalidRestarts ==
  /\ node = "decide"
  /\ iterations < MaxIterations
  /\ iterations' = 0
  /\ retry' = TRUE /\ answer' = FALSE
  /\ UNCHANGED <<node, executed, failed, rejected, waiting, handoff, call, approved,
                 card, notes, results, result, outcome, conversation, history, faults>>

\* several calls at once, an unknown tool, bad arguments or a forbidden
\* handoff: the model is told and decides again
DecideInvalid ==
  /\ node = "decide"
  /\ iterations < MaxIterations
  /\ iterations' = iterations + 1
  /\ \E speaks \in BOOLEAN :
       /\ notes' = Noted(speaks)
       /\ said' = Streamed(speaks)
  /\ retry' = TRUE /\ answer' = FALSE
  /\ call' = None /\ card' = None
  /\ UNCHANGED <<node, executed, failed, rejected, waiting, handoff, approved, results, result,
                 outcome, conversation, lost, granted, ran, faults>>

\* one valid call
DecideCall ==
  /\ node = "decide"
  /\ iterations < MaxIterations
  /\ iterations' = iterations + 1
  /\ \E t \in Tools, speaks \in BOOLEAN :
       /\ t = Handoff => HandoffAllowed
       /\ call' = [tool |-> t, id |-> iterations']
       /\ said' = Streamed(speaks)
       /\ IF t \in Writes
            THEN /\ card' = [id |-> iterations', notes |-> Noted(speaks)]
                 /\ notes' = <<>>
            ELSE /\ card' = None
                 /\ notes' = Noted(speaks)
  /\ retry' = FALSE /\ answer' = FALSE
  /\ node' = AfterDecide(call')
  /\ UNCHANGED <<executed, failed, rejected, waiting, handoff, approved, results, result,
                 outcome, conversation, lost, granted, ran, faults>>

\* no call: not allowed before some tool has run
DecideText ==
  /\ node = "decide"
  /\ iterations < MaxIterations
  /\ iterations' = iterations + 1
  /\ retry' = ~executed
  /\ answer' \in (IF executed THEN BOOLEAN ELSE {FALSE})
  /\ node' = IF ~executed THEN "decide" ELSE IF answer' THEN "finish" ELSE "respond"
  /\ call' = None /\ card' = None
  /\ UNCHANGED <<executed, failed, rejected, waiting, handoff, approved, notes, results, result,
                 outcome, conversation, history, faults>>

\* the model call fails, or the run is stopped, after some of the text went
\* out and before the decision is checkpointed: it is made again, by a new
\* call of the model and under a new id
DecideLost ==
  /\ node = "decide"
  /\ iterations < MaxIterations
  /\ faults < MaxFaults
  /\ \E speaks \in BOOLEAN :
       /\ said' = Streamed(speaks)
       /\ lost' = lost \cup (said' \ said)
  /\ faults' = faults + 1
  /\ UNCHANGED <<node, control, call, approved, card, notes, results, result, outcome,
                 conversation, granted, ran>>

(***************************************************************************)
(* confirm_tool: the interrupt.  The resume command first writes the notes *)
(* of the card into the conversation, then the node reads the decision.    *)
(***************************************************************************)
Confirm ==
  /\ node = "confirm_tool"
  /\ conversation' = Deliver(card.notes)
  /\ \/ /\ approved' = TRUE
        /\ granted' = granted \cup {card.id}
        /\ node' = "execute_tool"
        /\ UNCHANGED <<rejected, call, card>>
     \/ /\ approved' = FALSE /\ rejected' = TRUE
        /\ call' = None /\ card' = None
        /\ node' = "finish"
        /\ UNCHANGED granted
  /\ UNCHANGED <<iterations, executed, failed, waiting, handoff, retry, answer, notes, results,
                 result, outcome, said, lost, ran, faults>>

\* the execution that carries the decision stops before the node is done: the
\* notes are in the conversation, the card is still there
ConfirmLost ==
  /\ node = "confirm_tool"
  /\ faults < MaxFaults
  /\ conversation' = Deliver(card.notes)
  /\ faults' = faults + 1
  /\ UNCHANGED <<node, control, call, approved, card, notes, results, result, outcome, history>>

(***************************************************************************)
(* execute_tool.                                                           *)
(***************************************************************************)
InvokeTool ==
  /\ node = "execute_tool"
  /\ outcome = None
  /\ outcome' \in BOOLEAN
  /\ ran' = IF call.tool \in Writes THEN ran \cup {call.id} ELSE ran
  /\ UNCHANGED <<node, control, call, approved, card, notes, results, result,
                 conversation, said, lost, granted, faults>>

\* after_execute
AfterExecute(ok, empty) ==
  IF ~ok THEN "respond"
  ELSE IF call.tool = Handoff THEN "finish"
  ELSE IF call.tool = Ask THEN (IF empty THEN "respond" ELSE "finish")
  ELSE "decide"

\* the outcome is checkpointed; empty is a question of blanks
Archive ==
  /\ node = "execute_tool"
  /\ outcome # None
  /\ results' = Append(results, [tool |-> call.tool, success |-> outcome])
  /\ executed' = TRUE
  /\ failed' = ~outcome
  /\ waiting' = (outcome /\ call.tool = Ask)
  /\ handoff' = (outcome /\ call.tool = Handoff)
  /\ retry' = FALSE
  /\ \E empty \in BOOLEAN :
       /\ answer' = (waiting' /\ ~empty)
       /\ node' = AfterExecute(outcome, empty)
  /\ call' = None /\ card' = None /\ approved' = FALSE /\ outcome' = None
  /\ UNCHANGED <<iterations, rejected, notes, result, conversation, history, faults>>

\* the run stops between the tool and the checkpoint
ExecutionLost ==
  /\ node = "execute_tool"
  /\ outcome # None
  /\ faults < MaxFaults
  /\ outcome' = None
  /\ faults' = faults + 1
  /\ UNCHANGED <<node, control, call, approved, card, notes, results, result, conversation, history>>

(***************************************************************************)
(* finish and respond.                                                     *)
(***************************************************************************)

\* [mutant] the user's refusal is not looked at
StatusUnrefused == IF waiting THEN "waiting_input" ELSE IF failed THEN "failed" ELSE "completed"

\* _result
Status ==
  IF waiting THEN "waiting_input"
  ELSE IF rejected THEN "rejected"
  ELSE IF failed THEN "failed"
  ELSE "completed"

\* the result carries the undelivered notes; the parent graph writes them
\* into the conversation before the answer
Report(status, artifact) ==
  /\ result' = [status |-> status, notes |-> notes, artifact |-> artifact]
  /\ conversation' = Deliver(notes)
  /\ node' = "end"

Finish ==
  /\ node = "finish"
  /\ IF handoff
       THEN Report("handed_off", {})
       ELSE /\ rejected \/ answer
            /\ Report(Status, Artifact)
  /\ UNCHANGED <<control, call, approved, card, notes, results, outcome, history, faults>>

\* the model writes the answer, or nothing and the node raises
Respond ==
  /\ node = "respond"
  /\ \/ Report(Status, Artifact)
     \/ node' = "raised" /\ UNCHANGED <<result, conversation>>
  /\ UNCHANGED <<control, call, approved, card, notes, results, outcome, history, faults>>

Step ==
  \/ Initialize \/ DecideOverLimit \/ DecideInvalid \/ DecideCall \/ DecideText
  \/ InvokeTool \/ Archive \/ Finish \/ Respond

Next == Step \/ DecideLost \/ Confirm \/ ConfirmLost \/ ExecutionLost

\* LangGraph runs the next node; nothing makes the user answer the card.
Fairness == WF_vars(Step)

Spec     == Init /\ [][Next]_vars
FairSpec == Spec /\ Fairness

(***************************************************************************)
(* Properties.                                                             *)
(***************************************************************************)

\* No write runs that the user has not approved on its own card, through
\* retries of the model, lost decisions and repeated executions.
WritesAreApproved == ran \subseteq granted

\* The status says what happened: completed means some tool ran, none failed
\* and the user refused nothing; rejected means the user refused; failed means
\* the last tool failed; waiting means the last thing done was to ask; handed
\* over means that was the last thing done, and nothing had been written, since
\* the next agent does not learn what happened here (_handoff_error).
StatusIsEarned ==
  result # None =>
    /\ result.status = "completed" =>
         /\ results # <<>> /\ \A i \in DOMAIN results : results[i].success
         /\ ~rejected
    /\ result.status = "rejected" => rejected
    /\ result.status = "failed" => results # <<>> /\ ~Last(results).success
    /\ result.status = "waiting_input" =>
         results # <<>> /\ Last(results) = [tool |-> Ask, success |-> TRUE]
    /\ result.status = "handed_off" =>
         /\ results # <<>> /\ Last(results) = [tool |-> Handoff, success |-> TRUE]
         /\ Artifact \cap Writes = {}

\* What the user was streamed while tools were called is in the conversation
\* once the task has its result, each text once: the notes travel either with
\* the card or with the result, and a card that is answered twice does not
\* repeat them.  What an execution of decide streamed that did not reach its
\* checkpoint is not there (decide streams first and checkpoints afterwards),
\* but what the same decision said when it was made again is: never two
\* versions of one decision.
NotesReachConversationOnce ==
  /\ \A n \in Ids : conversation[n] <= 1
  /\ \A m, n \in Ids :
       conversation[m] = 1 /\ conversation[n] = 1 /\ m.made = n.made => m = n
  /\ result # None => {n \in Ids : conversation[n] = 1} = said \ lost

\* The agent does not loop: the task comes to a result or an error, or rests
\* at a card the user never answers, whatever the model keeps answering.
TaskEnds == <>[](node \in Ended \cup {"confirm_tool"})
==============================================================================
