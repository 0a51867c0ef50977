----------------------------- MODULE ActionLedger -----------------------------
(***************************************************************************)
(* The write tools and the workflow_actions table behind them              *)
(* (tools/local_enterprise.py, repositories/actions.py).                   *)
(*                                                                         *)
(* A call is known by its idempotency key conversation:request:task:tool.  *)
(* The tool of a key decides what it does: create a document, update one   *)
(* or revoke one.  Update and revoke first read the document on a          *)
(* connection of their own and only later open the transaction that        *)
(* writes, so calls of other conversations come between the two.  A run    *)
(* that dies or is stopped after the commit and before its checkpoint      *)
(* leaves the confirmation card on the screen: the same key runs again, or *)
(* the user refuses this time.                                             *)
(*                                                                         *)
(* A row of the table is a function of its key.  The row of a create key   *)
(* is the document itself; an update or revoke key has a row of its own    *)
(* holding the result it was answered with.                                *)
(***************************************************************************)
EXTENDS Naturals, FiniteSets

CONSTANTS Creates, Updates, Revokes,  \* keys, by the tool of the key
          Fields, Values,             \* payload fields and their values
          Legal,                      \* payloads the tool's schema accepts
          Same,                       \* None in an update's input: do not change
          Drafts, Inputs,             \* what users ask to create, and to change
          None,
          MaxRounds,                  \* calls a task makes of one tool (bound)
          MaxRepeated                 \* tools called more than once (bound)

Nothing  == [f \in Fields |-> Same]
Keys     == Creates \cup Updates \cup Revokes
Payloads == [Fields -> Values]
Changes  == [Fields -> Values \cup {Same}]
Requests == [doc: Creates, changes: Changes]
Rows     == [doc: Creates, payload: Payloads, revised: BOOLEAN, revokedBy: Revokes \cup {None}]

ASSUME KeysAssumption ==
  /\ Creates \cap Updates = {} /\ Creates \cap Revokes = {} /\ Updates \cap Revokes = {}
ASSUME NoneAssumption ==
  None \notin Rows \cup Requests \cup Payloads \cup [payload: Payloads, revoked: BOOLEAN]
                \cup Revokes \cup Updates \cup Creates
ASSUME SameAssumption  == Same \notin Values
ASSUME LegalAssumption == Legal \subseteq Payloads
ASSUME InputsAssumption == Drafts \subseteq Legal /\ Inputs \subseteq Changes \ {Nothing}
ASSUME BoundAssumption == MaxRounds \in Nat /\ MaxRepeated \in Nat

VARIABLES rows,      \* the table: key -> row
          request,   \* the confirmed call of a key, as the checkpoint holds it
          phase,     \* where the call of a key stands
          merged,    \* the new payload an update computed before its transaction
          answer,    \* the outcome the tool returned
          rounds,    \* calls made with a key
          effects,   \* history: how often a key has changed a document
          serial     \* the user works in one conversation only; never changes

vars == <<rows, request, phase, merged, answer, rounds, effects, serial>>

Succeeded == {"submitted", "updated", "revoked"}
Refused   == {"not_found", "already_revoked", "illegal", "error", "rejected"}
Answers   == [status: Succeeded \cup Refused, result: Rows \cup {None}]

TypeOK ==
  /\ rows \in [Keys -> Rows \cup {None}]
  /\ request \in [Keys -> Requests \cup {None}]
  /\ phase \in [Keys -> {"idle", "approved", "checked", "answered"}]
  /\ merged \in [Keys -> Payloads \cup {None}]
  /\ answer \in [Keys -> Answers \cup {None}]
  /\ rounds \in [Keys -> 0..MaxRounds]
  /\ effects \in [Keys -> Nat]
  /\ serial \in BOOLEAN

Init ==
  /\ rows = [k \in Keys |-> None]
  /\ request = [k \in Keys |-> None]
  /\ phase = [k \in Keys |-> "idle"]
  /\ merged = [k \in Keys |-> None]
  /\ answer = [k \in Keys |-> None]
  /\ rounds = [k \in Keys |-> 0]
  /\ effects = [k \in Keys |-> 0]
  /\ serial \in BOOLEAN

(***************************************************************************)
(* Helpers.                                                                *)
(***************************************************************************)

\* _merged: the stored fields with the named ones replaced
Merge(payload, changes) ==
  [f \in Fields |-> IF changes[f] = Same THEN payload[f] ELSE changes[f]]

\* [mutant] the replay check is missing
NeverReplayed(k) == FALSE

\* the row some earlier execution of this key left behind
Replayed(k) == rows[k] # None

\* build the outcome of a call; the graph has not checkpointed it yet
Answer(k, status, result) ==
  /\ phase' = [phase EXCEPT ![k] = "answered"]
  /\ answer' = [answer EXCEPT ![k] = [status |-> status, result |-> result]]

\* the document a call names, as list_submitted finds it (None if there is none)
Listed(k) == rows[request[k].doc]

\* One conversation at a time: no other call is between its check and its commit.
MayCheck(k) == serial => \A j \in Keys \ {k} : phase[j] # "checked"

(***************************************************************************)
(* The task confirms a call.  A task may call the same tool again: the key *)
(* does not change.                                                        *)
(***************************************************************************)
Approve(k) ==
  /\ phase[k] = "idle"
  /\ rounds[k] < MaxRounds
  /\ rounds[k] > 0 => Cardinality({j \in Keys \ {k} : rounds[j] > 1}) < MaxRepeated
  /\ \E d \in Creates, c \in Drafts \cup Inputs \cup {Nothing} :
       /\ k \in Creates => d = k /\ c \in Drafts
       /\ k \in Updates => c \in Inputs
       /\ k \in Revokes => c = Nothing
       /\ request' = [request EXCEPT ![k] = [doc |-> d, changes |-> c]]
  /\ phase' = [phase EXCEPT ![k] = "approved"]
  /\ rounds' = [rounds EXCEPT ![k] = @ + 1]
  /\ answer' = [answer EXCEPT ![k] = None]
  /\ UNCHANGED <<rows, merged, effects>>

\* execute_once: INSERT ... ON CONFLICT keeps the row, RETURNING result
ExecuteOnce(k) ==
  LET document == [doc |-> k, payload |-> request[k].changes,
                   revised |-> FALSE, revokedBy |-> None]
      stored   == IF Replayed(k) THEN rows[k] ELSE document
  IN /\ k \in Creates
     /\ phase[k] = "approved"
     /\ rows' = [rows EXCEPT ![k] = stored]
     /\ effects' = [effects EXCEPT ![k] = IF Replayed(k) THEN @ ELSE @ + 1]
     /\ Answer(k, "submitted", stored)
     /\ UNCHANGED <<request, merged, rounds>>

\* [mutant] revoking what does not exist is reported as done
CheckFailsQuietly(k) ==
  /\ k \in Revokes
  /\ phase[k] = "approved"
  /\ Listed(k) = None
  /\ Answer(k, "revoked", None)
  /\ UNCHANGED <<rows, request, merged, rounds, effects>>

\* _merged / revoke_submission refuse the call before any transaction
CheckFails(k) ==
  /\ k \in Updates \cup Revokes
  /\ phase[k] = "approved"
  /\ \/ Listed(k) = None /\ Answer(k, "not_found", None)
     \/ /\ Listed(k) # None
        /\ Listed(k).revokedBy # None
        /\ Answer(k, "already_revoked", None)
     \/ /\ k \in Updates
        /\ Listed(k) # None
        /\ Listed(k).revokedBy = None
        /\ Merge(Listed(k).payload, request[k].changes) \notin Legal
        /\ Answer(k, "illegal", None)
  /\ UNCHANGED <<rows, request, merged, rounds, effects>>

\* [mutant] a revoked document may be updated
CheckUpdateOfAny(k) ==
  /\ k \in Updates
  /\ phase[k] = "approved"
  /\ MayCheck(k)
  /\ Listed(k) # None
  /\ Merge(Listed(k).payload, request[k].changes) \in Legal
  /\ merged' = [merged EXCEPT ![k] = Merge(Listed(k).payload, request[k].changes)]
  /\ phase' = [phase EXCEPT ![k] = "checked"]
  /\ UNCHANGED <<rows, request, answer, rounds, effects>>

\* the revision check of _merged: the merged payload is what will be written
CheckUpdate(k) ==
  /\ k \in Updates
  /\ phase[k] = "approved"
  /\ MayCheck(k)
  /\ Listed(k) # None
  /\ Listed(k).revokedBy = None
  /\ Merge(Listed(k).payload, request[k].changes) \in Legal
  /\ merged' = [merged EXCEPT ![k] = Merge(Listed(k).payload, request[k].changes)]
  /\ phase' = [phase EXCEPT ![k] = "checked"]
  /\ UNCHANGED <<rows, request, answer, rounds, effects>>

CheckRevoke(k) ==
  /\ k \in Revokes
  /\ phase[k] = "approved"
  /\ MayCheck(k)
  /\ Listed(k) # None
  /\ Listed(k).revokedBy = None
  /\ phase' = [phase EXCEPT ![k] = "checked"]
  /\ UNCHANGED <<rows, request, merged, answer, rounds, effects>>

\* [mutant] the patch is applied to what the document says by now
RevisedRowFieldwise(k) ==
  [doc |-> request[k].doc, payload |-> Merge(Listed(k).payload, request[k].changes),
   revised |-> TRUE, revokedBy |-> None]

\* The row update_submitted writes: the whole payload, and a result built from
\* the status of the old one alone, so a revocation mark is not carried over.
RevisedRow(k) ==
  [doc |-> request[k].doc, payload |-> merged[k], revised |-> TRUE, revokedBy |-> None]

\* [mutant] the document is overwritten and no row logs it
UpdateUnlogged(k) ==
  /\ k \in Updates
  /\ phase[k] = "checked"
  /\ Listed(k) # None
  /\ rows' = [rows EXCEPT ![request[k].doc] = RevisedRow(k)]
  /\ effects' = [effects EXCEPT ![k] = @ + 1]
  /\ Answer(k, "updated", RevisedRow(k))
  /\ merged' = [merged EXCEPT ![k] = None]
  /\ UNCHANGED <<request, rounds>>

\* update_submitted, one transaction: replay, or lock, overwrite and log
UpdateSubmitted(k) ==
  /\ k \in Updates
  /\ phase[k] = "checked"
  /\ Listed(k) # None
  /\ \/ /\ Replayed(k)
        /\ Answer(k, "updated", rows[k])
        /\ UNCHANGED <<rows, effects>>
     \/ /\ ~Replayed(k)
        /\ rows' = [rows EXCEPT ![request[k].doc] = RevisedRow(k), ![k] = RevisedRow(k)]
        /\ effects' = [effects EXCEPT ![k] = @ + 1]
        /\ Answer(k, "updated", RevisedRow(k))
  /\ merged' = [merged EXCEPT ![k] = None]
  /\ UNCHANGED <<request, rounds>>

\* revoke_submitted, one transaction: replay, or already revoked by another
\* call (returned as it is, no row of its own), or mark and log
RevokeSubmitted(k) ==
  LET marked == [Listed(k) EXCEPT !.revokedBy = k]
  IN /\ k \in Revokes
     /\ phase[k] = "checked"
     /\ Listed(k) # None
     /\ \/ /\ Replayed(k)
           /\ Answer(k, "revoked", rows[k])
           /\ UNCHANGED <<rows, effects>>
        \/ /\ ~Replayed(k)
           /\ Listed(k).revokedBy # None
           /\ Answer(k, "revoked", Listed(k))
           /\ UNCHANGED <<rows, effects>>
        \/ /\ ~Replayed(k)
           /\ Listed(k).revokedBy = None
           /\ rows' = [rows EXCEPT ![request[k].doc] = marked, ![k] = marked]
           /\ effects' = [effects EXCEPT ![k] = @ + 1]
           /\ Answer(k, "revoked", marked)
     /\ UNCHANGED <<request, merged, rounds>>

\* execute_tool catches whatever the tool raises, before or after the commit
ToolRaised(k) ==
  /\ \/ phase[k] \in {"approved", "checked"}
     \/ phase[k] = "answered" /\ answer[k].status \in Succeeded
  /\ Answer(k, "error", None)
  /\ merged' = [merged EXCEPT ![k] = None]
  /\ UNCHANGED <<rows, request, rounds, effects>>

\* the outcome reaches the checkpoint: the call is over
Checkpoint(k) ==
  /\ phase[k] = "answered"
  /\ phase' = [phase EXCEPT ![k] = "idle"]
  /\ UNCHANGED <<rows, request, merged, answer, rounds, effects>>

\* the run dies or is stopped before that: the card is still there
Interrupt(k) ==
  /\ phase[k] \in {"checked", "answered"}
  /\ phase' = [phase EXCEPT ![k] = "approved"]
  /\ answer' = [answer EXCEPT ![k] = None]
  /\ merged' = [merged EXCEPT ![k] = None]
  /\ UNCHANGED <<rows, request, rounds, effects>>

\* the user refuses the card, the first time or when it comes back
Reject(k) ==
  /\ phase[k] = "approved"
  /\ phase' = [phase EXCEPT ![k] = "idle"]
  /\ answer' = [answer EXCEPT ![k] = [status |-> "rejected", result |-> None]]
  /\ UNCHANGED <<rows, request, merged, rounds, effects>>

Next ==
  /\ UNCHANGED serial
  /\ \E k \in Keys :
       \/ Approve(k) \/ ExecuteOnce(k) \/ CheckFails(k)
       \/ CheckUpdate(k) \/ CheckRevoke(k)
       \/ UpdateSubmitted(k) \/ RevokeSubmitted(k)
       \/ ToolRaised(k) \/ Checkpoint(k) \/ Interrupt(k) \/ Reject(k)

Spec == Init /\ [][Next]_vars

(***************************************************************************)
(* Properties.                                                             *)
(***************************************************************************)

\* A confirmed write takes effect at most once, however often its run dies,
\* its card is confirmed again or its task repeats the call (execute_once's
\* ON CONFLICT and the replay check of the two transactions).
AtMostOnce == \A k \in Keys : effects[k] <= 1

\* A document always satisfies the schema it was created under: update_submitted
\* overwrites the whole payload that _merged validated, so two concurrent
\* updates cannot combine into one neither of them checked.
DocumentsStayLegal ==
  \A d \in Creates : rows[d] # None => rows[d].payload \in Legal

\* "The audit shows who changed the document in which turn" (actions.py
\* 173-175): what a revised document says is what one update row says, and a
\* revocation mark has its revoke row.
EveryChangeIsAudited ==
  \A d \in Creates : rows[d] # None =>
    /\ rows[d].revised =>
         \E u \in Updates : /\ rows[u] # None
                            /\ rows[u].doc = d
                            /\ rows[u].payload = rows[d].payload
    /\ rows[d].revokedBy # None =>
         /\ rows[rows[d].revokedBy] # None
         /\ rows[rows[d].revokedBy].doc = d

\* A success the user was told of is in the ledger: the document of a create,
\* the row of an update, and for a revocation some revoke row of the document
\* the answer names.  (A task that calls its tool once more for another
\* document gets the first answer again, actions.py 182: what was asked for
\* and what the answer names may differ.)
SuccessIsRecorded ==
  \A k \in Keys : answer[k] # None /\ answer[k].status \in Succeeded =>
    /\ answer[k].result # None
    /\ k \in Creates \cup Updates => rows[k] # None
    /\ k \in Revokes =>
         \E r \in Revokes : rows[r] # None /\ rows[r].doc = answer[k].result.doc

\* For a user who works in one conversation at a time the ledger is the
\* document store of module Documents: crashes, replays and lost replies of
\* the tools do not show in the documents.  (For any other user the mapping
\* shows an empty store, of which nothing is claimed.)
DocumentOf(row) == [payload |-> row.payload, revoked |-> row.revokedBy # None]
documents ==
  [d \in Creates |-> IF serial /\ rows[d] # None THEN DocumentOf(rows[d]) ELSE None]
Store == INSTANCE Documents WITH Refs <- Creates, docs <- documents
StoreSpec == Store!Spec

\* "Revoked is final; changing a revoked document would revive it"
\* (local_enterprise.py 397): a document that carries a revocation keeps it.
RevokedIsFinal ==
  [][\A d \in Creates :
       (rows[d] # None /\ rows[d].revokedBy # None) => rows'[d].revokedBy # None]_vars
==============================================================================
