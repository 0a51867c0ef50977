---------------------------- MODULE FeedbackSync ----------------------------
(***************************************************************************)
(* Thumbs up and down on one answer: rate_message (api/routes.py) saves it *)
(* in the local table (repositories/feedback.py) and hands it to the       *)
(* worker of LangSmithFeedbackSync (services/feedback.py), which sends one *)
(* event after another to the tracing service.  The process around it -    *)
(* start, shutdown, crash - is Lifespan's.                                 *)
(***************************************************************************)
EXTENDS Naturals, Sequences

CONSTANTS Ratings,       \* requests of the user; a rating stands for what it says
          MaxNetFaults,  \* calls to the tracing service that fail (bound)
          None

ASSUME FeedbackAssumption == MaxNetFaults \in Nat /\ None \notin Ratings

VARIABLES local,      \* the row of message_feedback
          remote,     \* what the tracing service holds
          rating,     \* where a request stands
          first,      \* what save() returned to it
          queue,      \* _queue: the events waiting, by request
          sending,    \* events a _send thread works on -> its next call
          worker,     \* _worker: none yet, on, or cancelled
          submitted,  \* history: the latest event
          missed,     \* history: the event taken last failed for good, or events were dropped
          netFaults

feedbackVars == <<local, remote, rating, first, queue, sending, worker,
                  submitted, missed, netFaults>>

FeedbackTypeOK ==
  /\ {local, remote, submitted} \subseteq Ratings \cup {None}
  /\ rating \in [Ratings -> {"idle", "saved", "done"}]
  /\ first \in [Ratings -> BOOLEAN]
  /\ queue \in Seq(Ratings)
  /\ sending \in [Ratings -> {"no", "update", "create"}]
  /\ worker \in {"none", "on", "cancelled"}
  /\ missed \in BOOLEAN
  /\ netFaults \in 0..MaxNetFaults
  \* once saved, the answer has its row
  /\ \A r \in Ratings : rating[r] # "idle" => local # None

FeedbackInit ==
  /\ local = None /\ remote = None
  /\ rating = [r \in Ratings |-> "idle"]
  /\ first = [r \in Ratings |-> FALSE]
  /\ queue = <<>>
  /\ sending = [r \in Ratings |-> "no"]
  /\ worker = "none"
  /\ submitted = None
  /\ missed = FALSE
  /\ netFaults = 0

Sending == {r \in Ratings : sending[r] # "no"}

\* the row is written and save() says whether it was inserted (xmax = 0); the
\* answer is under way to the handler
Save(r) ==
  /\ rating[r] = "idle"
  /\ local' = r
  /\ first' = [first EXCEPT ![r] = local = None]
  /\ rating' = [rating EXCEPT ![r] = "saved"]
  /\ UNCHANGED <<remote, queue, sending, worker, submitted, missed, netFaults>>

\* the handler goes on: it submits the event if the service is configured, and
\* submit() starts the worker when there is none
Submit(r, configured) ==
  /\ rating[r] = "saved"
  /\ rating' = [rating EXCEPT ![r] = "done"]
  /\ IF configured
     THEN /\ queue' = Append(queue, r)
          /\ worker' = "on"
          /\ submitted' = r
     ELSE UNCHANGED <<queue, worker, submitted>>
  /\ UNCHANGED <<local, remote, first, sending, missed, netFaults>>

\* [mutant] the worker does not wait for its thread
TakeAhead ==
  /\ worker = "on"
  /\ queue # <<>>
  /\ queue' = Tail(queue)
  /\ sending' = [sending EXCEPT ![Head(queue)] = IF first[Head(queue)] THEN "create" ELSE "update"]
  /\ missed' = FALSE
  /\ UNCHANGED <<local, remote, rating, first, worker, submitted, netFaults>>

\* the worker takes the next event when the thread of the one before has ended
Take ==
  /\ worker = "on"
  /\ Sending = {}
  /\ queue # <<>>
  /\ queue' = Tail(queue)
  /\ sending' = [sending EXCEPT ![Head(queue)] = IF first[Head(queue)] THEN "create" ELSE "update"]
  /\ missed' = FALSE
  /\ UNCHANGED <<local, remote, rating, first, worker, submitted, netFaults>>

NetFault == netFaults < MaxNetFaults /\ netFaults' = netFaults + 1

\* [mutant] an update that fails is given up
CallUpdateOnly(r) ==
  /\ sending[r] = "update"
  /\ sending' = [sending EXCEPT ![r] = "no"]
  /\ remote' = IF remote = None THEN None ELSE r
  /\ UNCHANGED <<local, rating, first, queue, worker, submitted, missed, netFaults>>

\* update_feedback: refused when the service holds nothing; on any exception
\* _send goes on to create, also when only the answer was lost
CallUpdate(r) ==
  /\ sending[r] = "update"
  /\ \/ /\ remote # None
        /\ remote' = r
        /\ sending' = [sending EXCEPT ![r] = "no"]
        /\ UNCHANGED netFaults
     \/ /\ sending' = [sending EXCEPT ![r] = "create"]
        /\ \/ remote = None /\ UNCHANGED <<remote, netFaults>>
           \/ NetFault /\ remote' \in {remote, IF remote = None THEN None ELSE r}
  /\ UNCHANGED <<local, rating, first, queue, worker, submitted, missed>>

\* read_project and create_feedback; of an id it knows already the service may
\* take the new values or refuse.  A failure is logged and the event is gone
CallCreate(r) ==
  /\ sending[r] = "create"
  /\ sending' = [sending EXCEPT ![r] = "no"]
  /\ \/ remote' = r /\ UNCHANGED <<missed, netFaults>>
     \/ remote # None /\ missed' = TRUE /\ UNCHANGED <<remote, netFaults>>
     \/ NetFault /\ missed' = TRUE /\ remote' \in {remote, r}
  /\ UNCHANGED <<local, rating, first, queue, worker, submitted>>

\* the worker is cancelled; what still queues is dropped, a thread runs on
CancelWorker ==
  /\ worker' = IF worker = "none" THEN "none" ELSE "cancelled"
  /\ queue' = <<>>
  /\ missed' = (missed \/ queue # <<>>)
  /\ UNCHANGED <<local, remote, rating, first, sending, submitted, netFaults>>

\* the process dies: handlers, queue and threads with it; a call under way may
\* have reached the service
LoseMemory ==
  /\ rating' = [r \in Ratings |-> IF rating[r] = "saved" THEN "done" ELSE rating[r]]
  /\ queue' = <<>>
  /\ sending' = [r \in Ratings |-> "no"]
  /\ worker' = "none"
  /\ missed' = (missed \/ queue # <<>> \/ Sending # {})
  /\ remote' \in {remote} \cup {r \in Sending : sending[r] = "create" \/ remote # None}
  /\ UNCHANGED <<local, first, submitted, netFaults>>

Settled == queue = <<>> /\ Sending = {} /\ ~missed

\* When nothing is under way and the last event was not lost to the network, a
\* full stop or the shutdown's deadline, the tracing service shows the rating
\* submitted last, also when an earlier one never got there.  (That need not be
\* the row of the table: a handler can die or be overtaken before its submit().)
MirrorFollowsLatest == Settled /\ submitted # None => remote = submitted
=============================================================================
