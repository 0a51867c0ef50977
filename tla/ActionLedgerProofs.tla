-------------------------- MODULE ActionLedgerProofs --------------------------
(***************************************************************************)
(* Proofs about ActionLedger for every set of keys, fields, values and     *)
(* schemas and every number of repeated calls: a write takes effect at     *)
(* most once, documents stay legal, every change is audited; and for a     *)
(* user working in one conversation the ledger implements Documents.       *)
(***************************************************************************)
EXTENDS ActionLedger, TLAPS

\* An effect and a row come and go together: what makes the replay check of a
\* transaction decide whether the write already happened.
EffectLeavesRow ==
  \A k \in Keys : effects[k] = IF rows[k] = None THEN 0 ELSE 1

\* A call in progress has its arguments; those of a create passed the schema.
CallsAreSound ==
  \A k \in Keys : phase[k] # "idle" =>
    /\ request[k] # None
    /\ k \in Creates => request[k].doc = k /\ request[k].changes \in Legal

\* What an update will write has passed the schema.
MergedIsLegal ==
  \A u \in Updates : phase[u] = "checked" => merged[u] \in Legal

\* The row of a create key is the document of that reference.
RowsAreDocuments ==
  \A d \in Creates : rows[d] # None => rows[d].doc = d

IInv ==
  /\ TypeOK
  /\ RowsAreDocuments
  /\ EffectLeavesRow
  /\ CallsAreSound
  /\ MergedIsLegal
  /\ DocumentsStayLegal
  /\ EveryChangeIsAudited

-----------------------------------------------------------------------------
\* Merging a well-typed patch gives a payload.
LEMMA MergeType ==
  ASSUME NEW p \in Payloads, NEW c \in Changes
  PROVE  Merge(p, c) \in Payloads
  BY DEF Merge, Payloads, Changes

LEMMA RowNotNone == ASSUME NEW r \in Rows PROVE r # None
  BY NoneAssumption

LEMMA InitIInv == Init => IInv
  <1> SUFFICES ASSUME Init PROVE IInv
    OBVIOUS
  <1>1. TypeOK
    BY BoundAssumption DEF Init, TypeOK
  <1>2. EffectLeavesRow
    BY DEF Init, EffectLeavesRow
  <1>3. CallsAreSound /\ MergedIsLegal
    BY DEF Init, CallsAreSound, MergedIsLegal, Keys
  <1>4. DocumentsStayLegal /\ EveryChangeIsAudited /\ RowsAreDocuments
    BY DEF Init, DocumentsStayLegal, EveryChangeIsAudited, RowsAreDocuments, Keys
  <1> QED
    BY <1>1, <1>2, <1>3, <1>4 DEF IInv

-----------------------------------------------------------------------------
\* Steps that touch neither the table nor the history keep what is said of them.
LEMMA TableUntouched ==
  ASSUME RowsAreDocuments, EffectLeavesRow, DocumentsStayLegal, EveryChangeIsAudited,
         UNCHANGED <<rows, effects>>
  PROVE  RowsAreDocuments' /\ EffectLeavesRow' /\ DocumentsStayLegal' /\ EveryChangeIsAudited'
  BY DEF RowsAreDocuments, EffectLeavesRow, DocumentsStayLegal, EveryChangeIsAudited

\* A call is confirmed.
LEMMA ApproveIInv ==
  ASSUME IInv, NEW k \in Keys, Approve(k), UNCHANGED serial
  PROVE  IInv'
  <1> USE DEF IInv
  <1> PICK d \in Creates, c \in Drafts \cup Inputs \cup {Nothing} :
        /\ k \in Creates => d = k /\ c \in Legal
        /\ request' = [request EXCEPT ![k] = [doc |-> d, changes |-> c]]
    BY InputsAssumption DEF Approve
  <1>1. c \in Changes
    BY InputsAssumption, LegalAssumption DEF Nothing, Changes, Payloads
  <1>2. [doc |-> d, changes |-> c] \in Requests
    BY <1>1 DEF Requests
  <1>3. rounds' \in [Keys -> 0..MaxRounds]
    <2>1. rounds[k] + 1 \in 0..MaxRounds
      BY BoundAssumption DEF Approve, TypeOK
    <2> QED
      BY <2>1 DEF Approve, TypeOK
  <1>4. TypeOK'
    BY <1>2, <1>3 DEF Approve, TypeOK
  <1>5. CallsAreSound'
    BY <1>2, NoneAssumption DEF Approve, TypeOK, CallsAreSound
  <1>6. MergedIsLegal'
    BY DEF Approve, TypeOK, MergedIsLegal, Keys
  <1> QED
    BY <1>4, <1>5, <1>6, TableUntouched DEF Approve

\* execute_once inserts a legal document or returns the one that is there.
LEMMA ExecuteOnceIInv ==
  ASSUME IInv, NEW k \in Keys, ExecuteOnce(k), UNCHANGED serial
  PROVE  IInv'
  <1> USE DEF IInv
  <1> DEFINE document == [doc |-> k, payload |-> request[k].changes,
                          revised |-> FALSE, revokedBy |-> None]
  <1>1. request[k].changes \in Legal /\ k \in Creates
    BY DEF ExecuteOnce, CallsAreSound
  <1>2. document \in Rows
    BY <1>1, LegalAssumption DEF Rows
  <1>3. document # None
    BY <1>2, RowNotNone
  <1> DEFINE stored == IF rows[k] # None THEN rows[k] ELSE document
  <1>4. stored \in Rows /\ stored # None
    BY <1>2, <1>3 DEF TypeOK
  <1>5. /\ rows' = [rows EXCEPT ![k] = stored]
        /\ effects' = [effects EXCEPT ![k] = IF rows[k] # None THEN @ ELSE @ + 1]
        /\ phase' = [phase EXCEPT ![k] = "answered"]
        /\ answer' = [answer EXCEPT ![k] = [status |-> "submitted", result |-> stored]]
        /\ UNCHANGED <<request, merged, rounds>>
        /\ phase[k] = "approved"
    BY DEF ExecuteOnce, Answer, Replayed
  <1> HIDE DEF stored
  <1>6. TypeOK'
    <2>1. [status |-> "submitted", result |-> stored] \in Answers
      BY <1>4 DEF Answers, Succeeded
    <2> QED
      BY <1>4, <1>5, <2>1 DEF TypeOK
  <1>7. EffectLeavesRow'
    BY <1>4, <1>5 DEF EffectLeavesRow, TypeOK
  <1>8. CallsAreSound' /\ MergedIsLegal'
    BY <1>5 DEF CallsAreSound, MergedIsLegal, TypeOK, Keys
  <1>9. stored.payload \in Legal
    BY <1>1 DEF stored, DocumentsStayLegal
  <1>10. DocumentsStayLegal'
    BY <1>5, <1>9 DEF DocumentsStayLegal, TypeOK, Keys
  <1>11. EveryChangeIsAudited'
    <2> SUFFICES ASSUME NEW d \in Creates, rows'[d] # None
                 PROVE  /\ rows'[d].revised =>
                             \E u \in Updates : /\ rows'[u] # None
                                               /\ rows'[u].doc = d
                                               /\ rows'[u].payload = rows'[d].payload
                        /\ rows'[d].revokedBy # None =>
                             /\ rows'[rows'[d].revokedBy] # None
                             /\ rows'[rows'[d].revokedBy].doc = d
      BY DEF EveryChangeIsAudited
    <2>1. \A u \in Updates \cup Revokes : rows'[u] = rows[u]
      BY <1>1, <1>5, KeysAssumption DEF TypeOK, Keys
    <2>2. CASE rows[d] # None
      <3>1. rows'[d] = rows[d]
        BY <1>5, <2>2 DEF stored, TypeOK, Keys
      <3>2. rows[d].revokedBy \in Revokes \cup {None}
        BY <2>2 DEF TypeOK, Rows, Keys
      <3> QED
        BY <2>1, <2>2, <3>1, <3>2 DEF EveryChangeIsAudited
    <2>3. CASE rows[d] = None
      <3>1. rows'[d] = document
        BY <1>5, <2>3 DEF stored, TypeOK, Keys
      <3> QED
        BY <3>1
    <2> QED
      BY <2>2, <2>3
  <1>12. RowsAreDocuments'
    BY <1>5 DEF stored, RowsAreDocuments, TypeOK, Keys
  <1> QED
    BY <1>6, <1>7, <1>8, <1>10, <1>11, <1>12

\* What a call names is a row of the table or nothing.
LEMMA ListedType ==
  ASSUME TypeOK, CallsAreSound, NEW k \in Keys, phase[k] # "idle"
  PROVE  /\ request[k] \in Requests
         /\ request[k].doc \in Creates
         /\ request[k].doc \in Keys
         /\ Listed(k) \in Rows \cup {None}
         /\ Listed(k) = rows[request[k].doc]
  BY DEF TypeOK, CallsAreSound, Listed, Requests, Keys

\* Refusals, checks, checkpoints and interruptions leave the table alone.
LEMMA OtherIInv ==
  ASSUME IInv, NEW k \in Keys,
         \/ CheckFails(k) \/ CheckUpdate(k) \/ CheckRevoke(k)
         \/ ToolRaised(k) \/ Checkpoint(k) \/ Interrupt(k) \/ Reject(k),
         UNCHANGED serial
  PROVE  IInv'
  <1> USE DEF IInv
  <1> DEFINE refusal(s) == [status |-> s, result |-> None]
  <1>0. \A s \in Refused : refusal(s) \in Answers
    BY DEF Answers
  <1>1. CASE CheckFails(k)
    <2>1. PICK s \in Refused : Answer(k, s, None)
      BY <1>1 DEF CheckFails, Refused
    <2>2. TypeOK'
      BY <1>0, <1>1, <2>1 DEF CheckFails, Answer, TypeOK
    <2>3. CallsAreSound' /\ MergedIsLegal'
      BY <1>1, <2>1 DEF CheckFails, Answer, CallsAreSound, MergedIsLegal, TypeOK, Keys
    <2> QED
      BY <1>1, <2>2, <2>3, TableUntouched DEF CheckFails
  <1>2. CASE CheckUpdate(k)
    <2> DEFINE m == Merge(Listed(k).payload, request[k].changes)
    <2>1. /\ m \in Legal
          /\ merged' = [merged EXCEPT ![k] = m]
          /\ phase' = [phase EXCEPT ![k] = "checked"]
          /\ phase[k] = "approved"
          /\ UNCHANGED <<rows, request, answer, rounds, effects>>
      BY <1>2 DEF CheckUpdate
    <2> HIDE DEF m
    <2>2. TypeOK'
      BY <2>1, LegalAssumption DEF TypeOK
    <2>3. CallsAreSound' /\ MergedIsLegal'
      BY <2>1 DEF CallsAreSound, MergedIsLegal, TypeOK, Keys
    <2> QED
      BY <2>1, <2>2, <2>3, TableUntouched
  <1>3. CASE CheckRevoke(k)
    <2>1. TypeOK'
      BY <1>3 DEF CheckRevoke, TypeOK
    <2>2. CallsAreSound'
      BY <1>3 DEF CheckRevoke, CallsAreSound, TypeOK
    <2>3. MergedIsLegal'
      BY <1>3, KeysAssumption DEF CheckRevoke, MergedIsLegal, TypeOK, Keys
    <2> QED
      BY <1>3, <2>1, <2>2, <2>3, TableUntouched DEF CheckRevoke
  <1>4. CASE ToolRaised(k)
    <2>1. TypeOK'
      BY <1>0, <1>4 DEF ToolRaised, Answer, TypeOK, Refused
    <2>2. CallsAreSound' /\ MergedIsLegal'
      BY <1>4 DEF ToolRaised, Answer, CallsAreSound, MergedIsLegal, TypeOK, Keys
    <2> QED
      BY <1>4, <2>1, <2>2, TableUntouched DEF ToolRaised
  <1>5. CASE Checkpoint(k)
    <2>1. TypeOK'
      BY <1>5 DEF Checkpoint, TypeOK
    <2>2. CallsAreSound' /\ MergedIsLegal'
      BY <1>5 DEF Checkpoint, CallsAreSound, MergedIsLegal, TypeOK, Keys
    <2> QED
      BY <1>5, <2>1, <2>2, TableUntouched DEF Checkpoint
  <1>6. CASE Interrupt(k)
    <2>1. TypeOK'
      BY <1>6 DEF Interrupt, TypeOK
    <2>2. CallsAreSound' /\ MergedIsLegal'
      BY <1>6 DEF Interrupt, CallsAreSound, MergedIsLegal, TypeOK, Keys
    <2> QED
      BY <1>6, <2>1, <2>2, TableUntouched DEF Interrupt
  <1>7. CASE Reject(k)
    <2>1. TypeOK'
      BY <1>0, <1>7 DEF Reject, TypeOK, Refused
    <2>2. CallsAreSound' /\ MergedIsLegal'
      BY <1>7 DEF Reject, CallsAreSound, MergedIsLegal, TypeOK, Keys
    <2> QED
      BY <1>7, <2>1, <2>2, TableUntouched DEF Reject
  <1> QED
    BY <1>1, <1>2, <1>3, <1>4, <1>5, <1>6, <1>7

\* A write of a document together with the row that logs it.
LEMMA LoggedWrite ==
  ASSUME IInv, NEW k \in Updates \cup Revokes, NEW d \in Creates, NEW row \in Rows,
         rows[d] # None, rows[k] = None,
         row.doc = d, row.payload \in Legal,
         row.revised => k \in Updates \/ (rows[d].revised /\ row.payload = rows[d].payload),
         row.revokedBy # None => row.revokedBy = k,
         rows' = [rows EXCEPT ![d] = row, ![k] = row],
         effects' = [effects EXCEPT ![k] = @ + 1]
  PROVE  RowsAreDocuments' /\ EffectLeavesRow' /\ DocumentsStayLegal' /\ EveryChangeIsAudited'
  <1> USE DEF IInv
  <1>1. d # k /\ d \in Keys /\ k \in Keys
    BY KeysAssumption DEF Keys
  <1>2. rows'[d] = row /\ rows'[k] = row /\ row # None
    BY <1>1, RowNotNone DEF TypeOK
  <1>3. \A j \in Keys : j \notin {d, k} => rows'[j] = rows[j]
    BY DEF TypeOK
  <1>4. EffectLeavesRow'
    BY <1>1, <1>2, <1>3 DEF EffectLeavesRow, TypeOK
  <1>5. DocumentsStayLegal'
    BY <1>1, <1>2, <1>3, KeysAssumption DEF DocumentsStayLegal, Keys
  <1>6. EveryChangeIsAudited'
    <2> SUFFICES ASSUME NEW e \in Creates, rows'[e] # None
                 PROVE  /\ rows'[e].revised =>
                             \E u \in Updates : /\ rows'[u] # None
                                               /\ rows'[u].doc = e
                                               /\ rows'[u].payload = rows'[e].payload
                        /\ rows'[e].revokedBy # None =>
                             /\ rows'[rows'[e].revokedBy] # None
                             /\ rows'[rows'[e].revokedBy].doc = e
      BY DEF EveryChangeIsAudited
    <2>1. \A j \in Updates \cup Revokes : rows[j] # None => j \in Keys /\ rows'[j] = rows[j]
      BY <1>1, <1>3, KeysAssumption DEF Keys
    <2>2. CASE e = d
      <3>1. ASSUME row.revised
            PROVE  \E u \in Updates : /\ rows'[u] # None
                                     /\ rows'[u].doc = d
                                     /\ rows'[u].payload = row.payload
        <4>1. CASE k \in Updates
          BY <1>2, <4>1
        <4>2. CASE rows[d].revised /\ row.payload = rows[d].payload
          <5> PICK u \in Updates : /\ rows[u] # None
                                   /\ rows[u].doc = d
                                   /\ rows[u].payload = rows[d].payload
            BY <4>2 DEF EveryChangeIsAudited
          <5>1. rows'[u] = rows[u]
            BY <2>1
          <5> QED
            BY <4>2, <5>1
        <4> QED
          BY <3>1, <4>1, <4>2
      <3> QED
        BY <2>2, <3>1, <1>2
    <2>3. CASE e # d
      <3>1. rows'[e] = rows[e] /\ e \in Keys
        BY <2>3, <1>3, KeysAssumption DEF Keys
      <3>2. rows[e].revokedBy \in Revokes \cup {None}
        BY <3>1 DEF TypeOK, Rows
      <3>3. ASSUME rows[e].revised
            PROVE  \E u \in Updates : /\ rows'[u] # None
                                     /\ rows'[u].doc = e
                                     /\ rows'[u].payload = rows[e].payload
        <4> PICK u \in Updates : /\ rows[u] # None
                                 /\ rows[u].doc = e
                                 /\ rows[u].payload = rows[e].payload
          BY <3>1, <3>3 DEF EveryChangeIsAudited
        <4>1. rows'[u] = rows[u]
          BY <2>1
        <4> QED
          BY <4>1
      <3>4. ASSUME rows[e].revokedBy # None
            PROVE  /\ rows'[rows[e].revokedBy] # None
                   /\ rows'[rows[e].revokedBy].doc = e
        BY <2>1, <3>1, <3>2, <3>4 DEF EveryChangeIsAudited
      <3> QED
        BY <3>1, <3>3, <3>4
    <2> QED
      BY <2>2, <2>3
  <1>7. RowsAreDocuments'
    <2> SUFFICES ASSUME NEW e \in Creates, rows'[e] # None PROVE rows'[e].doc = e
      BY DEF RowsAreDocuments
    <2>1. CASE e = d
      BY <1>2, <2>1
    <2>2. CASE e # d
      <3>1. rows'[e] = rows[e]
        BY <1>3, <2>2, KeysAssumption DEF Keys
      <3> QED
        BY <3>1 DEF RowsAreDocuments
    <2> QED
      BY <2>1, <2>2
  <1> QED
    BY <1>4, <1>5, <1>6, <1>7

LEMMA UpdateIInv ==
  ASSUME IInv, NEW k \in Keys, UpdateSubmitted(k), UNCHANGED serial
  PROVE  IInv'
  <1> USE DEF IInv
  <1>1. /\ k \in Updates
        /\ phase[k] = "checked"
        /\ merged[k] \in Legal
        /\ merged' = [merged EXCEPT ![k] = None]
        /\ UNCHANGED <<request, rounds>>
        /\ Listed(k) # None
    BY DEF UpdateSubmitted, MergedIsLegal
  <1>2. /\ request[k].doc \in Creates
        /\ Listed(k) = rows[request[k].doc]
    BY <1>1, ListedType
  <1>3. RevisedRow(k) \in Rows
    BY <1>1, <1>2, LegalAssumption DEF RevisedRow, Rows
  <1>4. PICK res \in Rows : Answer(k, "updated", res)
    BY <1>3 DEF UpdateSubmitted, Replayed, TypeOK
  <1>5. rows' \in [Keys -> Rows \cup {None}] /\ effects' \in [Keys -> Nat]
    BY <1>3 DEF UpdateSubmitted, TypeOK
  <1>6. TypeOK'
    <2>1. [status |-> "updated", result |-> res] \in Answers
      BY DEF Answers, Succeeded
    <2> QED
      BY <1>1, <1>4, <1>5, <2>1 DEF Answer, TypeOK
  <1>7. CallsAreSound' /\ MergedIsLegal'
    BY <1>1, <1>4 DEF Answer, CallsAreSound, MergedIsLegal, TypeOK, Keys
  <1>8. RowsAreDocuments' /\ EffectLeavesRow' /\ DocumentsStayLegal' /\ EveryChangeIsAudited'
    <2>1. CASE Replayed(k)
      BY <2>1, TableUntouched DEF UpdateSubmitted
    <2>2. CASE ~Replayed(k)
      <3>1. /\ RevisedRow(k).doc = request[k].doc
            /\ RevisedRow(k).payload = merged[k]
            /\ RevisedRow(k).revokedBy = None
        BY DEF RevisedRow
      <3>2. /\ rows[k] = None
            /\ rows' = [rows EXCEPT ![request[k].doc] = RevisedRow(k), ![k] = RevisedRow(k)]
            /\ effects' = [effects EXCEPT ![k] = @ + 1]
        BY <2>2 DEF UpdateSubmitted, Replayed
      <3> QED
        BY <1>1, <1>2, <1>3, <3>1, <3>2, LoggedWrite
    <2> QED
      BY <2>1, <2>2
  <1> QED
    BY <1>6, <1>7, <1>8

LEMMA RevokeIInv ==
  ASSUME IInv, NEW k \in Keys, RevokeSubmitted(k), UNCHANGED serial
  PROVE  IInv'
  <1> USE DEF IInv
  <1> DEFINE marked == [Listed(k) EXCEPT !.revokedBy = k]
  <1>1. /\ k \in Revokes
        /\ phase[k] = "checked"
        /\ UNCHANGED <<request, merged, rounds>>
        /\ Listed(k) # None
    BY DEF RevokeSubmitted
  <1>2. /\ request[k].doc \in Creates
        /\ Listed(k) = rows[request[k].doc]
        /\ Listed(k) \in Rows
    BY <1>1, ListedType
  <1>3. marked \in Rows
    BY <1>1, <1>2 DEF Rows
  <1>4. PICK res \in Rows : Answer(k, "revoked", res)
    BY <1>2, <1>3 DEF RevokeSubmitted, Replayed, TypeOK
  <1>5. rows' \in [Keys -> Rows \cup {None}] /\ effects' \in [Keys -> Nat]
    BY <1>3 DEF RevokeSubmitted, TypeOK
  <1>6. TypeOK'
    <2>1. [status |-> "revoked", result |-> res] \in Answers
      BY DEF Answers, Succeeded
    <2> QED
      BY <1>1, <1>4, <1>5, <2>1 DEF Answer, TypeOK
  <1>7. CallsAreSound' /\ MergedIsLegal'
    BY <1>1, <1>4 DEF Answer, CallsAreSound, MergedIsLegal, TypeOK, Keys
  <1>8. RowsAreDocuments' /\ EffectLeavesRow' /\ DocumentsStayLegal' /\ EveryChangeIsAudited'
    <2>1. CASE UNCHANGED <<rows, effects>>
      BY <2>1, TableUntouched
    <2>2. CASE /\ ~Replayed(k)
               /\ rows' = [rows EXCEPT ![request[k].doc] = marked, ![k] = marked]
               /\ effects' = [effects EXCEPT ![k] = @ + 1]
      <3>1. /\ marked.payload = rows[request[k].doc].payload
            /\ marked.revised = rows[request[k].doc].revised
            /\ marked.revokedBy = k
        BY <1>2 DEF Rows
      <3>2. rows[request[k].doc].payload \in Legal
        BY <1>1, <1>2 DEF DocumentsStayLegal
      <3>3. marked.doc = request[k].doc
        BY <1>1, <1>2 DEF RowsAreDocuments, Rows
      <3> QED
        BY <1>1, <1>2, <1>3, <2>2, <3>1, <3>2, <3>3, LoggedWrite DEF Replayed
    <2> QED
      BY <2>1, <2>2 DEF RevokeSubmitted
  <1> QED
    BY <1>6, <1>7, <1>8

LEMMA NextIInv == IInv /\ [Next]_vars => IInv'
  <1> SUFFICES ASSUME IInv, [Next]_vars PROVE IInv'
    OBVIOUS
  <1>1. CASE UNCHANGED vars
    <2>1. TypeOK' /\ CallsAreSound' /\ MergedIsLegal'
      BY <1>1 DEF vars, IInv, TypeOK, CallsAreSound, MergedIsLegal
    <2> QED
      BY <1>1, <2>1, TableUntouched DEF vars, IInv
  <1>2. CASE Next
    <2> PICK k \in Keys :
          \/ Approve(k) \/ ExecuteOnce(k) \/ CheckFails(k)
          \/ CheckUpdate(k) \/ CheckRevoke(k)
          \/ UpdateSubmitted(k) \/ RevokeSubmitted(k)
          \/ ToolRaised(k) \/ Checkpoint(k) \/ Interrupt(k) \/ Reject(k)
      BY <1>2 DEF Next
    <2>1. UNCHANGED serial
      BY <1>2 DEF Next
    <2> QED
      BY <2>1, ApproveIInv, ExecuteOnceIInv, OtherIInv, UpdateIInv, RevokeIInv
  <1> QED
    BY <1>1, <1>2

THEOREM InvariantHolds == Spec => []IInv
  BY InitIInv, NextIInv, PTL DEF Spec

\* Whatever the schedule of calls, crashes and repeats, one key changes a
\* document at most once.
THEOREM WritesAtMostOnce == Spec => []AtMostOnce
  <1>1. IInv => AtMostOnce
    BY DEF IInv, EffectLeavesRow, AtMostOnce
  <1> QED
    BY <1>1, InvariantHolds, PTL

\* Concurrent updates never leave a payload the schema refuses.
THEOREM DocumentsLegal == Spec => []DocumentsStayLegal
  <1>1. IInv => DocumentsStayLegal
    BY DEF IInv
  <1> QED
    BY <1>1, InvariantHolds, PTL

\* Every revision and every revocation of a document has its row in the ledger.
THEOREM ChangesAudited == Spec => []EveryChangeIsAudited
  <1>1. IInv => EveryChangeIsAudited
    BY DEF IInv
  <1> QED
    BY <1>1, InvariantHolds, PTL

-----------------------------------------------------------------------------
(***************************************************************************)
(* A success that was reported stays in the ledger: rows are never taken   *)
(* away, and an answer only changes together with its call.                *)
(***************************************************************************)
LEMMA RowsKept ==
  ASSUME IInv, [Next]_vars, NEW k \in Keys, rows[k] # None
  PROVE  rows'[k] # None /\ (k \in Revokes => rows'[k] = rows[k])
  <1> USE DEF IInv
  <1>1. CASE UNCHANGED rows
    BY <1>1
  <1>2. CASE \E j \in Keys : ExecuteOnce(j)
    <2> PICK j \in Keys : ExecuteOnce(j)
      BY <1>2
    <2>1. rows'[k] = rows[k]
      BY DEF ExecuteOnce, Replayed, TypeOK
    <2> QED
      BY <2>1
  <1>3. CASE \E j \in Keys : UpdateSubmitted(j)
    <2> PICK j \in Keys : UpdateSubmitted(j)
      BY <1>3
    <2>1. CASE rows' = rows
      BY <2>1
    <2>2. CASE ~Replayed(j) /\ rows' = [rows EXCEPT ![request[j].doc] = RevisedRow(j),
                                                  ![j] = RevisedRow(j)]
      <3>1. /\ j \in Updates /\ request[j].doc \in Creates /\ request[j] \in Requests
            /\ merged[j] \in Legal
        BY ListedType DEF UpdateSubmitted, MergedIsLegal
      <3>2. RevisedRow(j) \in Rows
        BY <3>1, LegalAssumption DEF RevisedRow, Rows
      <3>3. RevisedRow(j) # None
        BY <3>2, RowNotNone
      <3> QED
        BY <2>2, <3>1, <3>3, KeysAssumption DEF TypeOK, Keys
    <2> QED
      BY <2>1, <2>2 DEF UpdateSubmitted
  <1>4. CASE \E j \in Keys : RevokeSubmitted(j)
    <2> PICK j \in Keys : RevokeSubmitted(j)
      BY <1>4
    <2> DEFINE marked == [Listed(j) EXCEPT !.revokedBy = j]
    <2>1. CASE rows' = rows
      BY <2>1
    <2>2. CASE ~Replayed(j) /\ rows' = [rows EXCEPT ![request[j].doc] = marked, ![j] = marked]
      <3>1. /\ j \in Revokes /\ request[j].doc \in Creates
            /\ Listed(j) \in Rows
        BY ListedType DEF RevokeSubmitted, TypeOK, Listed, Keys
      <3>2. marked \in Rows
        BY <3>1 DEF Rows
      <3>3. marked # None
        BY <3>2, RowNotNone
      <3> HIDE DEF marked
      <3> QED
        BY <2>2, <3>1, <3>3, KeysAssumption DEF Replayed, TypeOK, Keys
    <2> QED
      BY <2>1, <2>2 DEF RevokeSubmitted
  <1> QED
    <2>1. CASE UNCHANGED vars
      BY <2>1, <1>1 DEF vars
    <2>2. CASE Next
      BY <2>2, <1>1, <1>2, <1>3, <1>4
         DEF Next, Approve, CheckFails, CheckUpdate, CheckRevoke, ToolRaised, Checkpoint,
             Interrupt, Reject
    <2> QED
      BY <2>1, <2>2

\* A transaction that reports success has left, or found, the row it speaks of.
LEMMA SuccessLeavesRow ==
  ASSUME IInv, NEW k \in Keys, answer'[k] # None, answer'[k].status \in Succeeded,
         ExecuteOnce(k) \/ UpdateSubmitted(k) \/ RevokeSubmitted(k)
  PROVE  /\ answer'[k].result # None
         /\ k \in Creates \cup Updates => rows'[k] # None
         /\ k \in Revokes =>
              \E r \in Revokes : rows'[r] # None /\ rows'[r].doc = answer'[k].result.doc
  <1> USE DEF IInv
  <1>1. CASE ExecuteOnce(k)
    <2> DEFINE document == [doc |-> k, payload |-> request[k].changes,
                            revised |-> FALSE, revokedBy |-> None]
    <2> DEFINE stored == IF Replayed(k) THEN rows[k] ELSE document
    <2>1. k \in Creates /\ request[k].changes \in Legal
      BY <1>1 DEF ExecuteOnce, CallsAreSound
    <2>2. document \in Rows
      BY <2>1, LegalAssumption DEF Rows
    <2>3. document # None
      BY <2>2, RowNotNone
    <2>4. rows'[k] = stored /\ answer'[k].result = stored
      BY <1>1 DEF ExecuteOnce, Answer, TypeOK
    <2> HIDE DEF document
    <2> QED
      BY <2>1, <2>3, <2>4, KeysAssumption DEF Replayed
  <1>2. CASE UpdateSubmitted(k)
    <2>1. /\ k \in Updates /\ request[k].doc \in Creates /\ request[k] \in Requests
          /\ merged[k] \in Legal
      BY <1>2, ListedType DEF UpdateSubmitted, MergedIsLegal
    <2>2. RevisedRow(k) \in Rows
      BY <2>1, LegalAssumption DEF RevisedRow, Rows
    <2>3. RevisedRow(k) # None
      BY <2>2, RowNotNone
    <2>4. rows'[k] # None /\ answer'[k].result # None
      <3>1. CASE Replayed(k) /\ Answer(k, "updated", rows[k]) /\ rows' = rows
        BY <3>1 DEF Answer, Replayed, TypeOK
      <3>2. CASE /\ rows' = [rows EXCEPT ![request[k].doc] = RevisedRow(k),
                                         ![k] = RevisedRow(k)]
                 /\ Answer(k, "updated", RevisedRow(k))
        <4> HIDE DEF RevisedRow
        <4> QED
          BY <2>1, <2>3, <3>2, KeysAssumption DEF Answer, TypeOK
      <3> QED
        BY <1>2, <3>1, <3>2 DEF UpdateSubmitted
    <2> QED
      BY <2>1, <2>4, KeysAssumption
  <1>3. CASE RevokeSubmitted(k)
    <2> DEFINE d == request[k].doc
    <2> DEFINE marked == [Listed(k) EXCEPT !.revokedBy = k]
    <2>1. /\ k \in Revokes /\ d \in Creates /\ Listed(k) = rows[d] /\ rows[d] # None
          /\ request' = request
      BY <1>3, ListedType DEF RevokeSubmitted
    <2>2. CASE Replayed(k) /\ rows' = rows /\ Answer(k, "revoked", rows[k])
      BY <2>1, <2>2, KeysAssumption DEF Replayed, Answer, TypeOK
    <2>3. CASE rows[d].revokedBy # None /\ rows' = rows /\ Answer(k, "revoked", rows[d])
      <3>1. answer'[k].result = rows[d] /\ rows[d].doc = d /\ rows[d] \in Rows
        BY <2>1, <2>3 DEF Answer, TypeOK, RowsAreDocuments, Keys
      <3>2. rows[d].revokedBy \in Revokes
        BY <2>3, <3>1 DEF Rows
      <3> QED
        BY <2>1, <2>3, <3>1, <3>2, KeysAssumption DEF EveryChangeIsAudited
    <2>4. CASE /\ rows' = [rows EXCEPT ![d] = marked, ![k] = marked]
               /\ Answer(k, "revoked", marked)
      <3>1. rows[d] \in Rows /\ rows[d].doc = d
        BY <2>1 DEF TypeOK, Keys, RowsAreDocuments
      <3>2. marked \in Rows /\ marked.doc = d
        BY <2>1, <3>1 DEF Rows
      <3>3. marked # None
        BY <3>2, RowNotNone
      <3> HIDE DEF marked
      <3>4. rows'[k] = marked /\ answer'[k].result = marked
        BY <2>1, <2>4, KeysAssumption DEF Answer, TypeOK, Keys
      <3> QED
        BY <2>1, <3>2, <3>3, <3>4, KeysAssumption
    <2> QED
      BY <1>3, <2>1, <2>2, <2>3, <2>4, KeysAssumption DEF RevokeSubmitted
  <1> QED
    BY <1>1, <1>2, <1>3

\* Whatever crashes, repeats or is revoked afterwards, a reported success is in
\* the ledger.
THEOREM SuccessStaysRecorded == Spec => []SuccessIsRecorded
  <1>1. Init => SuccessIsRecorded
    BY DEF Init, SuccessIsRecorded
  <1>2. IInv /\ SuccessIsRecorded /\ [Next]_vars => SuccessIsRecorded'
    <2> SUFFICES ASSUME IInv, SuccessIsRecorded, [Next]_vars,
                        NEW k \in Keys, answer'[k] # None, answer'[k].status \in Succeeded
                 PROVE  /\ answer'[k].result # None
                        /\ k \in Creates \cup Updates => rows'[k] # None
                        /\ k \in Revokes =>
                             \E r \in Revokes : /\ rows'[r] # None
                                                /\ rows'[r].doc = answer'[k].result.doc
      BY DEF SuccessIsRecorded
    <2>1. CASE ExecuteOnce(k) \/ UpdateSubmitted(k) \/ RevokeSubmitted(k)
      BY <2>1, SuccessLeavesRow
    <2>2. CASE ~(ExecuteOnce(k) \/ UpdateSubmitted(k) \/ RevokeSubmitted(k))
      <3>1. answer'[k] = answer[k]
        <4>1. CASE UNCHANGED vars
          BY <4>1 DEF vars
        <4>2. CASE Next
          BY <2>2, <4>2
             DEF Next, Approve, ExecuteOnce, CheckFails, CheckUpdate, CheckRevoke,
                 UpdateSubmitted, RevokeSubmitted, ToolRaised, Checkpoint, Interrupt, Reject,
                 Answer, Succeeded, IInv, TypeOK
        <4> QED
          BY <4>1, <4>2
      <3>2. /\ answer[k].result # None
            /\ k \in Creates \cup Updates => rows[k] # None
            /\ k \in Revokes =>
                 \E r \in Revokes : rows[r] # None /\ rows[r].doc = answer[k].result.doc
        BY <3>1 DEF SuccessIsRecorded
      <3> QED
        BY <3>1, <3>2, RowsKept DEF Keys
    <2> QED
      BY <2>1, <2>2
  <1> QED
    BY <1>1, <1>2, InvariantHolds, PTL DEF Spec

-----------------------------------------------------------------------------
(***************************************************************************)
(* The refinement, for a serial user: between the check of a call and its  *)
(* transaction the document it read cannot change, so the payload computed *)
(* from the check is the patch applied to the document as it is.           *)
(***************************************************************************)
CheckStillHolds ==
  serial => \A k \in Keys : phase[k] = "checked" =>
    /\ \A j \in Keys : phase[j] = "checked" => j = k
    /\ k \in Updates \cup Revokes
    /\ Listed(k) # None
    /\ Listed(k).revokedBy = None
    /\ k \in Updates => merged[k] = Merge(Listed(k).payload, request[k].changes)

\* For one call k still in its check: nothing but its own commit moves it on.
LEMMA CheckedCallKept ==
  ASSUME serial, IInv, CheckStillHolds, NEW j \in Keys, NEW k \in Keys, j # k,
         phase[k] = "checked",
         \/ Approve(j) \/ ExecuteOnce(j) \/ CheckFails(j)
         \/ CheckUpdate(j) \/ CheckRevoke(j)
         \/ UpdateSubmitted(j) \/ RevokeSubmitted(j)
         \/ ToolRaised(j) \/ Checkpoint(j) \/ Interrupt(j) \/ Reject(j)
  PROVE  /\ phase'[j] # "checked"
         /\ request'[k] = request[k]
         /\ rows'[request[k].doc] = rows[request[k].doc]
         /\ merged'[k] = merged[k]
  <1> USE DEF IInv
  <1>1. phase[j] # "checked"
    BY DEF CheckStillHolds
  <1>2. ~UpdateSubmitted(j) /\ ~RevokeSubmitted(j)
    BY <1>1 DEF UpdateSubmitted, RevokeSubmitted
  <1>3. ~CheckUpdate(j) /\ ~CheckRevoke(j)
    BY DEF CheckUpdate, CheckRevoke, MayCheck
  <1>4. request[k].doc \in Keys /\ Listed(k) = rows[request[k].doc] /\ Listed(k) # None
    BY ListedType DEF CheckStillHolds
  <1>5. CASE ExecuteOnce(j)
    <2>1. /\ phase' = [phase EXCEPT ![j] = "answered"]
          /\ request' = request /\ merged' = merged
      BY <1>5 DEF ExecuteOnce, Answer
    <2>2. rows'[request[k].doc] = rows[request[k].doc]
      BY <1>4, <1>5 DEF ExecuteOnce, Replayed, TypeOK
    <2> QED
      BY <2>1, <2>2 DEF TypeOK
  <1>6. CASE Approve(j)
    <2>1. /\ phase' = [phase EXCEPT ![j] = "approved"]
          /\ rows' = rows /\ merged' = merged
          /\ request'[k] = request[k]
      BY <1>6 DEF Approve, TypeOK
    <2> QED
      BY <2>1 DEF TypeOK
  <1>7. CASE CheckFails(j)
    BY <1>7 DEF CheckFails, Answer, TypeOK
  <1>8. CASE ToolRaised(j)
    BY <1>8 DEF ToolRaised, Answer, TypeOK
  <1>9. CASE Checkpoint(j) \/ Interrupt(j) \/ Reject(j)
    BY <1>9 DEF Checkpoint, Interrupt, Reject, TypeOK
  <1> QED
    BY <1>2, <1>3, <1>5, <1>6, <1>7, <1>8, <1>9

\* A step of k itself leaves k checked only by checking it.
LEMMA CheckedBySelf ==
  ASSUME serial, IInv, NEW k \in Keys, phase'[k] = "checked",
         \/ Approve(k) \/ ExecuteOnce(k) \/ CheckFails(k)
         \/ CheckUpdate(k) \/ CheckRevoke(k)
         \/ UpdateSubmitted(k) \/ RevokeSubmitted(k)
         \/ ToolRaised(k) \/ Checkpoint(k) \/ Interrupt(k) \/ Reject(k)
  PROVE  /\ \A j \in Keys : phase'[j] = "checked" => j = k
         /\ k \in Updates \cup Revokes
         /\ Listed(k)' = Listed(k)
         /\ Listed(k) # None
         /\ Listed(k).revokedBy = None
         /\ k \in Updates => merged'[k] = Merge(Listed(k).payload, request[k].changes)
         /\ request' = request
  <1> USE DEF IInv
  <1>1. ~Approve(k) /\ ~Checkpoint(k) /\ ~Interrupt(k) /\ ~Reject(k)
    BY DEF Approve, Checkpoint, Interrupt, Reject, TypeOK
  <1>2. ~ExecuteOnce(k) /\ ~CheckFails(k) /\ ~ToolRaised(k)
    BY DEF ExecuteOnce, CheckFails, ToolRaised, Answer, TypeOK
  <1>3. ~UpdateSubmitted(k) /\ ~RevokeSubmitted(k)
    BY DEF UpdateSubmitted, RevokeSubmitted, Answer, TypeOK
  <1>4. CASE CheckUpdate(k)
    BY <1>4 DEF CheckUpdate, MayCheck, Listed, TypeOK
  <1>5. CASE CheckRevoke(k)
    BY <1>5, KeysAssumption DEF CheckRevoke, MayCheck, Listed, TypeOK
  <1> QED
    BY <1>1, <1>2, <1>3, <1>4, <1>5

LEMMA NextCheckStillHolds == IInv /\ CheckStillHolds /\ [Next]_vars => CheckStillHolds'
  <1> SUFFICES ASSUME IInv, CheckStillHolds, [Next]_vars, serial' PROVE CheckStillHolds'
    BY DEF CheckStillHolds
  <1>0. serial
    BY DEF Next, vars
  <1>1. CASE UNCHANGED vars
    BY <1>1 DEF vars, CheckStillHolds, Listed
  <1>2. CASE Next
    <2> PICK j \in Keys :
          \/ Approve(j) \/ ExecuteOnce(j) \/ CheckFails(j)
          \/ CheckUpdate(j) \/ CheckRevoke(j)
          \/ UpdateSubmitted(j) \/ RevokeSubmitted(j)
          \/ ToolRaised(j) \/ Checkpoint(j) \/ Interrupt(j) \/ Reject(j)
      BY <1>2 DEF Next
    <2>0. \A i \in Keys \ {j} : phase'[i] = phase[i]
      BY DEF Approve, ExecuteOnce, CheckFails, CheckUpdate, CheckRevoke, UpdateSubmitted,
             RevokeSubmitted, ToolRaised, Checkpoint, Interrupt, Reject, Answer, IInv, TypeOK
    <2> SUFFICES ASSUME NEW k \in Keys, phase'[k] = "checked"
                 PROVE  /\ \A i \in Keys : phase'[i] = "checked" => i = k
                        /\ k \in Updates \cup Revokes
                        /\ Listed(k)' # None
                        /\ Listed(k)'.revokedBy = None
                        /\ k \in Updates =>
                             merged'[k] = Merge(Listed(k)'.payload, request'[k].changes)
      BY DEF CheckStillHolds, Merge
    <2>1. CASE k = j
      BY <1>0, <2>1, CheckedBySelf
    <2>2. CASE k # j
      <3>1. phase[k] = "checked"
        BY <2>0, <2>2
      <3>2. /\ phase'[j] # "checked"
            /\ request'[k] = request[k]
            /\ rows'[request[k].doc] = rows[request[k].doc]
            /\ merged'[k] = merged[k]
        BY <1>0, <2>2, <3>1, CheckedCallKept
      <3>3. Listed(k)' = Listed(k)
        BY <3>2 DEF Listed
      <3> QED
        BY <1>0, <2>0, <3>1, <3>2, <3>3 DEF CheckStillHolds
    <2> QED
      BY <2>1, <2>2
  <1> QED
    BY <1>1, <1>2

LEMMA DocumentNotNone ==
  ASSUME NEW p \in Payloads, NEW b \in BOOLEAN
  PROVE  [payload |-> p, revoked |-> b] # None
  <1>1. [payload |-> p, revoked |-> b] \in [payload: Payloads, revoked: BOOLEAN]
    OBVIOUS
  <1> QED
    BY <1>1, NoneAssumption

\* A write of document d reads as a write of d alone.
LEMMA DocumentsAfterWrite ==
  ASSUME TypeOK, serial, serial',
         NEW d \in Creates, NEW k \in Updates \cup Revokes \cup {d}, NEW row \in Rows,
         rows' = [rows EXCEPT ![d] = row, ![k] = row]
  PROVE  documents' = [documents EXCEPT ![d] = DocumentOf(row)]
  <1>1. \A e \in Creates : rows'[e] = IF e = d THEN row ELSE rows[e]
    BY KeysAssumption DEF TypeOK, Keys
  <1>2. row # None
    BY RowNotNone
  <1>3. documents' = [e \in Creates |-> IF e = d THEN DocumentOf(row) ELSE documents[e]]
    BY <1>1, <1>2 DEF documents, DocumentOf
  <1> QED
    BY <1>3 DEF documents

LEMMA StoreStep == IInv /\ CheckStillHolds /\ [Next]_vars => [Store!Next]_documents
  <1> SUFFICES ASSUME IInv, CheckStillHolds, [Next]_vars
               PROVE  Store!Next \/ documents' = documents
    OBVIOUS
  <1>a. serial' = serial
    BY DEF Next, vars
  <1>b. CASE ~serial
    <2>1. documents = [d \in Creates |-> None]
      BY <1>b DEF documents
    <2>2. documents' = [d \in Creates |-> None]
      BY <1>a, <1>b DEF documents
    <2> QED
      BY <2>1, <2>2
  <1> SUFFICES ASSUME serial PROVE Store!Next \/ documents' = documents
    BY <1>b
  <1>0. serial /\ serial'
    BY <1>a
  <1> USE DEF IInv
  <1>1. CASE UNCHANGED rows
    BY <1>0, <1>1 DEF documents, DocumentOf
  <1>2. CASE \E k \in Keys : ExecuteOnce(k)
    <2> PICK k \in Keys : ExecuteOnce(k)
      BY <1>2
    <2>1. CASE Replayed(k)
      <3>1. rows' = rows
        BY <2>1 DEF ExecuteOnce, TypeOK
      <3> QED
        BY <3>1, <1>1
    <2>2. CASE ~Replayed(k)
      <3> DEFINE row == [doc |-> k, payload |-> request[k].changes,
                         revised |-> FALSE, revokedBy |-> None]
      <3>1. /\ k \in Creates /\ request[k].changes \in Legal
            /\ rows[k] = None
            /\ rows' = [rows EXCEPT ![k] = row]
        BY <2>2 DEF ExecuteOnce, Replayed, CallsAreSound
      <3>2. row \in Rows /\ request[k].changes \in Payloads
        BY <3>1, LegalAssumption DEF Rows
      <3>3. DocumentOf(row) = [payload |-> request[k].changes, revoked |-> FALSE]
        BY DEF DocumentOf
      <3>4. rows' = [rows EXCEPT ![k] = row, ![k] = row]
        BY <3>1, <3>2 DEF TypeOK
      <3> HIDE DEF row
      <3>5. documents' = [documents EXCEPT ![k] = DocumentOf(row)]
        BY <3>1, <3>2, <3>4, <1>0, DocumentsAfterWrite
      <3>6. documents[k] = None
        BY <1>0, <3>1 DEF documents
      <3>7. Store!Submit(k, request[k].changes)
        BY <3>1, <3>3, <3>5, <3>6 DEF Store!Submit
      <3> QED
        BY <3>1, <3>2, <3>7 DEF Store!Next, Store!Payloads, Payloads
    <2> QED
      BY <2>1, <2>2
  <1>3. CASE \E k \in Keys : UpdateSubmitted(k)
    <2> PICK k \in Keys : UpdateSubmitted(k)
      BY <1>3
    <2> DEFINE d == request[k].doc
    <2>1. CASE Replayed(k)
      BY <2>1, <1>1 DEF UpdateSubmitted
    <2>2. CASE ~Replayed(k)
      <3>1. /\ k \in Updates
            /\ phase[k] = "checked"
            /\ rows' = [rows EXCEPT ![d] = RevisedRow(k), ![k] = RevisedRow(k)]
        BY <2>2 DEF UpdateSubmitted
      <3>2. d \in Creates /\ Listed(k) = rows[d] /\ request[k] \in Requests
        BY <3>1, ListedType
      <3>3. /\ rows[d] # None /\ rows[d].revokedBy = None
            /\ merged[k] = Merge(rows[d].payload, request[k].changes)
            /\ merged[k] \in Legal
        BY <3>1, <3>2 DEF CheckStillHolds, MergedIsLegal
      <3>4. RevisedRow(k) \in Rows
        BY <3>2, <3>3, LegalAssumption DEF RevisedRow, Rows
      <3>5. documents' = [documents EXCEPT ![d] = DocumentOf(RevisedRow(k))]
        BY <3>1, <3>2, <3>4, <1>0, DocumentsAfterWrite
      <3>6. /\ DocumentOf(RevisedRow(k)) = [payload |-> merged[k], revoked |-> FALSE]
            /\ documents[d] = [payload |-> rows[d].payload, revoked |-> FALSE]
        BY <1>0, <3>2, <3>3 DEF DocumentOf, RevisedRow, documents
      <3>7. documents[d] # None
        <4>1. rows[d] \in Rows
          BY <3>2, <3>3 DEF TypeOK, Keys
        <4>2. rows[d].payload \in Payloads
          BY <4>1 DEF Rows
        <4> QED
          BY <4>1, <3>6, <4>2, DocumentNotNone
      <3>8. Store!Patched(documents[d].payload, request[k].changes) = merged[k]
        BY <3>3, <3>6 DEF Store!Patched, Merge
      <3>9. Store!Amend(d, request[k].changes)
        <4> DEFINE patched == Store!Patched(documents[d].payload, request[k].changes)
        <4>1. patched \in Legal /\ patched = merged[k]
          BY <3>3, <3>8
        <4> HIDE DEF patched
        <4>2. documents' = [documents EXCEPT ![d] = [payload |-> patched, revoked |-> FALSE]]
          BY <3>5, <3>6, <4>1
        <4>3. documents[d] # None /\ ~documents[d].revoked
          BY <3>6, <3>7
        <4> QED
          BY <4>1, <4>2, <4>3 DEF Store!Amend, patched
      <3>10. request[k].changes \in Store!Patches
        BY <3>2 DEF Store!Patches, Requests, Changes
      <3> QED
        BY <3>2, <3>9, <3>10 DEF Store!Next
    <2> QED
      BY <2>1, <2>2
  <1>4. CASE \E k \in Keys : RevokeSubmitted(k)
    <2> PICK k \in Keys : RevokeSubmitted(k)
      BY <1>4
    <2> DEFINE d == request[k].doc
    <2> DEFINE marked == [rows[d] EXCEPT !.revokedBy = k]
    <2>1. /\ k \in Revokes /\ phase[k] = "checked"
      BY DEF RevokeSubmitted
    <2>2. d \in Creates /\ Listed(k) = rows[d]
      BY <2>1, ListedType
    <2>3. /\ rows[d] # None /\ rows[d].revokedBy = None /\ rows[d] \in Rows
      BY <2>1, <2>2 DEF CheckStillHolds, TypeOK, Keys
    <2>4. CASE rows' = rows
      BY <2>4, <1>1
    <2>5. CASE rows' = [rows EXCEPT ![d] = marked, ![k] = marked]
      <3>1. marked \in Rows /\ marked.payload = rows[d].payload /\ marked.revokedBy = k
        BY <2>1, <2>3 DEF Rows
      <3> HIDE DEF marked, d
      <3>2. documents' = [documents EXCEPT ![d] = DocumentOf(marked)]
        BY <2>1, <2>2, <2>5, <3>1, <1>0, DocumentsAfterWrite
      <3>3. k # None
        BY <2>1, NoneAssumption
      <3>4. /\ DocumentOf(marked) = [payload |-> rows[d].payload, revoked |-> TRUE]
            /\ documents[d] = [payload |-> rows[d].payload, revoked |-> FALSE]
        BY <1>0, <2>2, <2>3, <3>1, <3>3 DEF DocumentOf, documents
      <3>5. documents[d] # None
        <4>1. rows[d].payload \in Payloads
          BY <2>3 DEF Rows
        <4> QED
          BY <3>4, <4>1, DocumentNotNone
      <3>6. Store!Withdraw(d)
        BY <3>2, <3>4, <3>5 DEF Store!Withdraw
      <3> QED
        BY <2>2, <3>6 DEF Store!Next, d
    <2> QED
      BY <2>2, <2>4, <2>5 DEF RevokeSubmitted
  <1> QED
    <2>1. CASE UNCHANGED vars
      BY <2>1, <1>1 DEF vars
    <2>2. CASE Next
      BY <2>2, <1>1, <1>2, <1>3, <1>4
         DEF Next, Approve, CheckFails, CheckUpdate, CheckRevoke, ToolRaised, Checkpoint,
             Interrupt, Reject
    <2> QED
      BY <2>1, <2>2

\* A user who works in one conversation at a time sees a document store:
\* crashes, replays and lost replies do not show in the documents.
THEOREM SerialLedgerIsStore == Spec => StoreSpec
  <1>1. Init => Store!Init
    <2> SUFFICES ASSUME Init PROVE documents = [d \in Creates |-> None]
      BY DEF Store!Init
    <2> QED
      BY DEF Init, documents, Keys
  <1>2. Init => CheckStillHolds
    BY DEF Init, CheckStillHolds
  <1>3. IInv /\ CheckStillHolds /\ [Next]_vars => CheckStillHolds'
    BY NextCheckStillHolds
  <1>4. IInv /\ CheckStillHolds /\ [Next]_vars => [Store!Next]_documents
    BY StoreStep
  <1> QED
    BY <1>1, <1>2, <1>3, <1>4, InvariantHolds, PTL DEF Spec, StoreSpec, Store!Spec
==============================================================================
