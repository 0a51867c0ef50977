------------------------------ MODULE Lifespan ------------------------------
(***************************************************************************)
(* The life of the process (main.py, lifespan): what start-up acquires it  *)
(* registers on an exit stack, and a shutdown - or a failed start-up -     *)
(* releases it in reverse order, while runs, background extractions of     *)
(* memories (graph/workflow.py, remember) and feedback still need it.      *)
(* Composes FeedbackSync and TokenBudget: the table, the tracing service   *)
(* and Redis outlive the process, everything else dies with it.            *)
(***************************************************************************)
EXTENDS FeedbackSync, TokenBudget, SequencesExt

VARIABLES process,      \* down, starting, up, stopping
          stack,        \* the exit stack, latest first
          releasing,    \* the callback at its head has begun
          background    \* workflow._background, by the run that spawned it

lifeVars == <<process, stack, releasing, background>>
vars == <<feedbackVars, budgetVars, lifeVars>>

\* [mutant] the extractions are registered before the pool they write to
OrderDrainFirst ==
  <<"drain_background", "db_pool", "redis", "milvus", "checkpoint_pool", "runs", "feedback_sync">>

\* what lifespan registers, in this order
Order ==
  <<"db_pool", "redis", "milvus", "drain_background", "checkpoint_pool", "runs", "feedback_sync">>

Held == ToSet(stack)

TypeOK ==
  /\ FeedbackTypeOK
  /\ BudgetTypeOK
  /\ process \in {"down", "starting", "up", "stopping"}
  /\ stack = Reverse(SubSeq(Order, 1, Len(stack)))
  /\ releasing \in BOOLEAN
  /\ background \subseteq Turns
  \* outside a process there is no task of it
  /\ process = "down" => /\ stack = <<>> /\ background = {}
                         /\ worker = "none" /\ queue = <<>> /\ Sending = {}

Init ==
  /\ FeedbackInit
  /\ BudgetInit
  /\ process = "down"
  /\ stack = <<>>
  /\ releasing = FALSE
  /\ background = {}

Start ==
  /\ process = "down"
  /\ process' = "starting"
  /\ UNCHANGED <<stack, releasing, background, feedbackVars, budgetVars>>

\* the next resource is there and registered
Acquire ==
  /\ process = "starting"
  /\ Len(stack) < Len(Order)
  /\ stack' = <<Order[Len(stack) + 1]>> \o stack
  /\ UNCHANGED <<process, releasing, background, feedbackVars, budgetVars>>

\* the start-up is through; without tracing there is no feedback_sync
Ready ==
  /\ process = "starting"
  /\ ToSet(Order) \ {"feedback_sync"} \subseteq Held
  /\ process' = "up"
  /\ UNCHANGED <<stack, releasing, background, feedbackVars, budgetVars>>

\* an exception anywhere in the start-up unwinds the stack
StartFails ==
  /\ process = "starting"
  /\ process' = "stopping"
  /\ UNCHANGED <<stack, releasing, background, feedbackVars, budgetVars>>

\* the server has stopped listening and its requests are answered, the open event
\* streams among them; runs live on
Stop ==
  /\ process = "up"
  /\ \A r \in Ratings : rating[r] # "saved"
  /\ process' = "stopping"
  /\ UNCHANGED <<stack, releasing, background, feedbackVars, budgetVars>>

(***************************************************************************)
(* What goes on in the process.                                            *)
(***************************************************************************)
Rate(r) ==
  /\ process = "up"
  /\ Save(r) \/ Submit(r, "feedback_sync" \in Held)
  /\ UNCHANGED <<lifeVars, budgetVars>>

Send ==
  /\ Take \/ \E r \in Ratings : CallUpdate(r) \/ CallCreate(r)
  /\ UNCHANGED <<lifeVars, budgetVars>>

BeginTurn(t) ==
  /\ process = "up"
  /\ Begin(t)
  /\ UNCHANGED <<lifeVars, feedbackVars>>

\* remember, the last node, leaves an extraction behind; it does not when the
\* turn waits for the user or memory is switched off, and then ends as well
Remember(t) ==
  /\ phase[t] = "executing"
  /\ Move(t, "remembered")
  /\ background' = background \cup {t}
  /\ UNCHANGED <<counter, window, unset, redisFaults>>
  /\ UNCHANGED <<process, stack, releasing, feedbackVars>>

EndTurn(t) == End(t) /\ UNCHANGED <<lifeVars, feedbackVars>>

RecordUsage(t) ==
  /\ Charge(t) \/ SetExpiry(t)
  /\ UNCHANGED <<lifeVars, feedbackVars>>

ClientLeaves(t) ==
  /\ phase[t] \in {"charging", "charged"}
  /\ CutOff({t}, {})
  /\ UNCHANGED <<lifeVars, feedbackVars>>

\* an extraction ends, written or failed
ExtractionEnds(t) ==
  /\ t \in background
  /\ background' = background \ {t}
  /\ UNCHANGED <<process, stack, releasing, feedbackVars, budgetVars>>

Clock == Age /\ UNCHANGED <<lifeVars, feedbackVars>>

\* Redis goes on without the process
RedisCatchesUp ==
  /\ \E t \in Turns : Lands(t)
  /\ UNCHANGED <<lifeVars, feedbackVars>>

(***************************************************************************)
(* Unwinding the stack: a callback begins, waits for what it waits for,    *)
(* and is popped.                                                          *)
(***************************************************************************)
Recording == {t \in Turns : phase[t] \in {"charging", "charged"}}
Live == InGraph \cup Recording

\* [mutant] the manager waits for its runs without cancelling them
CancelRunsNot == UNCHANGED budgetVars

\* every task is cancelled where it awaits: in the graph, whose finally still
\* records the usage, or in that recording
CancelRuns == \E going \in SUBSET InGraph : CutOff(Live, going)

BeginRelease ==
  /\ process = "stopping"
  /\ stack # <<>>
  /\ ~releasing
  /\ releasing' = TRUE
  /\ IF Head(stack) = "runs" THEN CancelRuns ELSE UNCHANGED budgetVars
  /\ UNCHANGED <<process, stack, background, feedbackVars>>

\* what the callback at the head of the stack waits for
Drained ==
  /\ Head(stack) = "runs" => Live = {}
  /\ Head(stack) = "drain_background" => background = {}

\* feedback_sync.aclose() waits ten seconds at most for the queue to be joined,
\* then cancels the worker
EndRelease ==
  /\ process = "stopping"
  /\ releasing
  /\ Drained
  /\ stack' = Tail(stack)
  /\ releasing' = FALSE
  /\ IF Head(stack) = "feedback_sync" THEN CancelWorker ELSE UNCHANGED feedbackVars
  /\ UNCHANGED <<process, background, budgetVars>>

\* the interpreter joins the threads of the executor before it ends
Exit ==
  /\ process = "stopping"
  /\ stack = <<>>
  /\ Sending = {}
  /\ process' = "down"
  /\ LoseMemory
  /\ UNCHANGED <<stack, releasing, background, budgetVars>>

\* the process is killed, at any time and as often as may be
Crash ==
  /\ process # "down"
  /\ process' = "down"
  /\ stack' = <<>>
  /\ releasing' = FALSE
  /\ background' = {}
  /\ LoseMemory
  /\ CutOff(Live, {})

Next ==
  \/ Start \/ Acquire \/ Ready \/ StartFails \/ Stop
  \/ \E r \in Ratings : Rate(r)
  \/ Send
  \/ \E t \in Turns : \/ BeginTurn(t) \/ Remember(t) \/ EndTurn(t) \/ RecordUsage(t)
                      \/ ClientLeaves(t) \/ ExtractionEnds(t)
  \/ Clock \/ RedisCatchesUp
  \/ BeginRelease \/ EndRelease \/ Exit
  \/ Crash

\* Calls to Redis, the tracing service and the model end (the Redis client is given
\* no timeout, main.py 57: that its calls end is an assumption), and the event loop
\* goes on with what is ready.  A graph may take as long as it likes: nothing is
\* assumed of EndTurn.
Fairness ==
  /\ WF_vars(Send)
  /\ \A t \in Turns : WF_vars(RecordUsage(t)) /\ WF_vars(ExtractionEnds(t))
  /\ WF_vars(BeginRelease) /\ WF_vars(EndRelease) /\ WF_vars(Exit)

Spec == Init /\ [][Next]_vars /\ Fairness

(***************************************************************************)
(* Properties.                                                             *)
(***************************************************************************)

\* what the tasks that are alive reach for
Needed ==
  UNION {IF InGraph # {} THEN {"db_pool", "redis", "milvus", "checkpoint_pool"} ELSE {},
         IF Recording # {} THEN {"redis"} ELSE {},
         IF background # {} THEN {"db_pool"} ELSE {},
         IF \E r \in Ratings : rating[r] = "saved" THEN {"db_pool"} ELSE {}}

\* No task outlives what it uses: a run the checkpoints, pools and clients, the
\* recording of its usage Redis, an extraction the pool it writes its memories
\* to - in whatever state the shutdown or a failed start-up finds them.
NoUseAfterRelease == Needed \subseteq Held

\* A shutdown comes to its end, whatever the runs, the extractions and the
\* queue of feedback were at.
ShutdownCompletes == process = "stopping" ~> process = "down"
=============================================================================
