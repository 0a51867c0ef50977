--------------------------- MODULE DomainTaskProofs ---------------------------
(***************************************************************************)
(* Theorems of DomainTask: whatever the model answers, the tools return    *)
(* and the user decides, with any limit of iterations and any number of    *)
(* faults, no write runs unapproved, the status of the result is what      *)
(* happened, and what was said reaches the conversation once.              *)
(***************************************************************************)
EXTENDS DomainTask, TLAPS

USE ToolsAssumption, LimitAssumption

Entries == [tool: Tools, success: BOOLEAN]

\* TypeOK in two parts: the flags, and the rest.
FlagsOK ==
  /\ executed \in BOOLEAN /\ failed \in BOOLEAN /\ rejected \in BOOLEAN /\ waiting \in BOOLEAN
  /\ handoff \in BOOLEAN /\ retry \in BOOLEAN /\ answer \in BOOLEAN /\ approved \in BOOLEAN
  /\ outcome \in BOOLEAN \cup {None}

DataOK ==
  /\ node \in {"initialize", "decide", "confirm_tool", "execute_tool", "finish", "respond"} \cup Ended
  /\ iterations \in 0..MaxIterations
  /\ call \in Calls \cup {None}
  /\ card = None \/ card \in Cards
  /\ notes \in Seq(Ids) /\ conversation \in [Ids -> Nat]
  /\ results \in Seq(Entries)
  /\ result = None \/ result \in [status: Statuses, notes: Seq(Ids), artifact: SUBSET Tools]
  /\ said \subseteq Ids /\ lost \subseteq Ids
  /\ granted \subseteq Decisions /\ ran \subseteq Decisions
  /\ faults \in 0..MaxFaults

AllSucceeded == results # <<>> /\ \A i \in DOMAIN results : results[i].success

\* Until the agent is done nothing has failed, nothing was asked or refused, and
\* there is a result of a tool just if one has run.
StillWorking ==
  node \in {"initialize", "decide", "confirm_tool", "execute_tool"} =>
    /\ ~failed /\ ~rejected /\ ~waiting /\ ~handoff
    /\ executed <=> results # <<>>
    /\ \A i \in DOMAIN results : results[i].success

\* When it is done, the flags _result reads say what the last tool did.
DoneForAReason ==
  node \in {"finish", "respond"} =>
    /\ handoff => /\ results # <<>> /\ Last(results) = [tool |-> Handoff, success |-> TRUE]
                  /\ Artifact \cap Writes = {}
                  /\ node = "finish"
    /\ waiting => results # <<>> /\ Last(results) = [tool |-> Ask, success |-> TRUE]
    /\ failed => results # <<>> /\ ~Last(results).success
    /\ waiting \/ rejected \/ failed \/ AllSucceeded

\* The card that is shown is the card of the call that waits; a call that is to
\* run has passed it, if it writes, and hands over only what it may.
CallIsReady ==
  /\ node = "confirm_tool" =>
       /\ call \in Calls /\ card \in Cards
       /\ call.tool \in Writes /\ card.id = call.id
  /\ node = "execute_tool" =>
       /\ call \in Calls
       /\ call.tool \in Writes => call.id \in granted
       /\ call.tool = Handoff => HandoffAllowed
  /\ outcome # None => node = "execute_tool"

Delivered == {n \in Ids : conversation[n] = 1}

\* Where a note may be whose decision stood: in the conversation, among the notes
\* that wait for the result, or on the card that is shown.  Decisions that stood
\* have one note at most, and the next one, or the next execution of this one,
\* has an id not seen before.
NotesAccounted ==
  /\ \A n \in Ids : conversation[n] <= 1
  /\ \A m, n \in said \ lost : m.made = n.made => m = n
  /\ \A n \in said \ lost : n.made <= iterations
  /\ \A n \in lost : n.try < faults
  /\ said \ lost = Delivered \cup Range(notes) \cup IF node = "confirm_tool" THEN Range(card.notes) ELSE {}
  /\ result # None => node = "end" /\ Range(notes) \subseteq Delivered

Earned == StillWorking /\ DoneForAReason /\ StatusIsEarned

IInv == FlagsOK /\ DataOK /\ CallIsReady /\ WritesAreApproved /\ NotesAccounted /\ Earned

-----------------------------------------------------------------------------
(* Sequences *)

LEMMA RangeOfAppend ==
  ASSUME NEW S, NEW s \in Seq(S), NEW x \in S
  PROVE  Append(s, x) \in Seq(S) /\ Range(Append(s, x)) = Range(s) \cup {x}
<1>1. /\ Append(s, x) \in Seq(S) /\ Len(Append(s, x)) = Len(s) + 1
      /\ Append(s, x)[Len(s) + 1] = x
      /\ \A i \in 1..Len(s) : Append(s, x)[i] = s[i]
  OBVIOUS
<1>2. DOMAIN s = 1..Len(s) /\ DOMAIN Append(s, x) = 1..(Len(s) + 1) /\ Len(s) \in Nat
  OBVIOUS
<1>3. Range(s) \cup {x} \subseteq Range(Append(s, x))
  BY <1>1, <1>2 DEF Range
<1>4. Range(Append(s, x)) \subseteq Range(s) \cup {x}
  BY <1>1, <1>2 DEF Range
<1> QED BY <1>1, <1>3, <1>4

LEMMA RangeIsThere == ASSUME NEW S, NEW s \in Seq(S) PROVE Range(s) \subseteq S
  BY DEF Range

LEMMA LastOfAppend ==
  ASSUME NEW S, NEW s \in Seq(S), NEW x \in S
  PROVE  /\ Append(s, x) \in Seq(S)
         /\ Append(s, x) # <<>> /\ Last(Append(s, x)) = x
         /\ \A i \in DOMAIN Append(s, x) :
              Append(s, x)[i] = x \/ (i \in DOMAIN s /\ Append(s, x)[i] = s[i])
  BY DEF Last

\* What is delivered is there once, and nothing leaves the conversation.
LEMMA DeliverOnce ==
  ASSUME conversation \in [Ids -> Nat], \A n \in Ids : conversation[n] <= 1,
         NEW ids \in Seq(Ids), conversation' = Deliver(ids)
  PROVE  /\ conversation' \in [Ids -> Nat]
         /\ \A n \in Ids : conversation'[n] <= 1
         /\ Delivered' = Delivered \cup Range(ids)
<1>1. Range(ids) \subseteq Ids
  BY RangeIsThere
<1> QED BY <1>1 DEF Deliver, Delivered

-----------------------------------------------------------------------------
LEMMA Starts == Init => IInv
<1> SUFFICES ASSUME Init PROVE IInv
  OBVIOUS
<1>1. FlagsOK
  BY Zenon DEF Init, FlagsOK
<1>2. DataOK
  BY DEF Init, DataOK, Ended
<1>3. NotesAccounted
  BY DEF Init, NotesAccounted, Delivered, Range
<1> QED BY <1>1, <1>2, <1>3 DEF Init, IInv, CallIsReady, WritesAreApproved, Earned, StillWorking,
                                DoneForAReason, StatusIsEarned

-----------------------------------------------------------------------------
(* One lemma per node. *)

LEMMA InitializeStep == ASSUME IInv, Initialize PROVE IInv'
<1> USE DEF Initialize, control, history
<1>1. FlagsOK'
  BY Zenon DEF IInv, FlagsOK
<1>2. DataOK'
  BY DEF IInv, DataOK
<1>3. CallIsReady' /\ WritesAreApproved'
  BY DEF IInv, CallIsReady, WritesAreApproved
<1>4. NotesAccounted'
  BY DEF IInv, NotesAccounted, Delivered
<1>5. Earned'
  BY DEF IInv, Earned, StillWorking, DoneForAReason, StatusIsEarned, Artifact
<1> QED BY <1>1, <1>2, <1>3, <1>4, <1>5 DEF IInv

LEMMA DecideOverLimitStep == ASSUME IInv, DecideOverLimit PROVE IInv'
<1> USE DEF DecideOverLimit, control, history
<1>1. FlagsOK'
  BY Zenon DEF IInv, FlagsOK
<1>2. DataOK'
  BY DEF IInv, DataOK, Ended
<1>3. CallIsReady' /\ WritesAreApproved'
  BY DEF IInv, CallIsReady, WritesAreApproved
<1>4. NotesAccounted'
  BY DEF IInv, NotesAccounted, Delivered
<1>5. Earned'
  BY DEF IInv, Earned, StillWorking, DoneForAReason, StatusIsEarned, Artifact
<1> QED BY <1>1, <1>2, <1>3, <1>4, <1>5 DEF IInv

LEMMA IdsAreNumbers ==
  ASSUME IInv
  PROVE  /\ iterations \in Nat /\ faults \in Nat
         /\ \A n \in said : n.made \in Nat
         /\ \A n \in lost : n.try \in Nat
  BY DEF IInv, DataOK, Ids, Decisions

\* What a decision does to the notes: the id is new, and so is its decision among
\* those that stood.
LEMMA NotedNotes ==
  ASSUME DataOK, NotesAccounted, iterations < MaxIterations, NEW speaks \in BOOLEAN,
         said' = Streamed(speaks)
  PROVE  /\ iterations + 1 \in Decisions
         /\ NewId \in Ids /\ NewId.made = iterations + 1 /\ NewId.try = faults
         /\ NewId \notin said /\ NewId \notin lost
         /\ said' \subseteq Ids
         /\ Noted(speaks) \in Seq(Ids)
         /\ said' \ lost = (said \ lost) \cup IF executed /\ speaks THEN {NewId} ELSE {}
         /\ Range(Noted(speaks)) = Range(notes) \cup IF executed /\ speaks THEN {NewId} ELSE {}
<1>1. iterations + 1 \in Decisions
  BY DEF DataOK, Decisions
<1>2. NewId \in Ids /\ NewId.made = iterations + 1 /\ NewId.try = faults
  BY <1>1 DEF NewId, Ids, DataOK
<1>3. NewId \notin lost
  BY <1>2 DEF NotesAccounted, DataOK
<1>4. NewId \notin said
  BY <1>2, <1>3 DEF NotesAccounted, DataOK
<1>5. Noted(speaks) \in Seq(Ids) /\
      Range(Noted(speaks)) = Range(notes) \cup IF executed /\ speaks THEN {NewId} ELSE {}
  BY <1>2, RangeOfAppend DEF DataOK, Noted
<1>6. /\ said' \subseteq Ids
      /\ said' \ lost = (said \ lost) \cup IF executed /\ speaks THEN {NewId} ELSE {}
  BY <1>2, <1>3 DEF Streamed, DataOK
<1> QED BY <1>1, <1>2, <1>3, <1>4, <1>5, <1>6

\* What stood stands once: the part of NotesAccounted a decision disturbs.
LEMMA DecidedOnce ==
  ASSUME DataOK, NotesAccounted, iterations < MaxIterations, NEW speaks \in BOOLEAN,
         said' = Streamed(speaks), lost' = lost, iterations' = iterations + 1, faults' = faults
  PROVE  /\ \A m, n \in said' \ lost' : m.made = n.made => m = n
         /\ \A n \in said' \ lost' : n.made <= iterations'
         /\ \A n \in lost' : n.try < faults'
<1>1. /\ NewId \in Ids /\ NewId.made = iterations + 1
      /\ said' \ lost' = (said \ lost) \cup IF executed /\ speaks THEN {NewId} ELSE {}
  BY NotedNotes
<1>2. \A n \in said' \ lost' :
         \/ n \in said \ lost /\ n.made \in Nat /\ n.made <= iterations
         \/ n = NewId
  BY <1>1 DEF NotesAccounted, DataOK, Ids, Decisions
<1>3. iterations \in Nat
  BY DEF DataOK
<1> HIDE DEF NewId
<1>4. \A m, n \in said' \ lost' : m.made = n.made => m = n
  BY <1>1, <1>2, <1>3 DEF NotesAccounted
<1>5. \A n \in said' \ lost' : n.made <= iterations'
  BY <1>1, <1>2, <1>3
<1> QED BY <1>4, <1>5 DEF NotesAccounted

LEMMA DecideInvalidStep == ASSUME IInv, DecideInvalid PROVE IInv'
<1>1. PICK speaks \in BOOLEAN : notes' = Noted(speaks) /\ said' = Streamed(speaks)
  BY DEF DecideInvalid
<1>2. /\ iterations + 1 \in Decisions
      /\ notes' \in Seq(Ids) /\ said' \subseteq Ids
      /\ said' \ lost = (said \ lost) \cup IF executed /\ speaks THEN {NewId} ELSE {}
      /\ Range(notes') = Range(notes) \cup IF executed /\ speaks THEN {NewId} ELSE {}
  BY <1>1, NotedNotes DEF IInv, DecideInvalid
<1>3. FlagsOK'
  BY Zenon DEF IInv, FlagsOK, DecideInvalid
<1>4. DataOK'
  BY <1>1, <1>2 DEF IInv, DataOK, DecideInvalid, Decisions
<1>5. CallIsReady' /\ WritesAreApproved'
  BY DEF IInv, CallIsReady, WritesAreApproved, DecideInvalid
<1>6. NotesAccounted'
  <2>1. /\ \A m, n \in said' \ lost' : m.made = n.made => m = n
        /\ \A n \in said' \ lost' : n.made <= iterations'
        /\ \A n \in lost' : n.try < faults'
    BY <1>1, DecidedOnce DEF IInv, DecideInvalid
  <2>2. said' \ lost' = Delivered' \cup Range(notes')
    BY <1>2 DEF IInv, NotesAccounted, Delivered, DecideInvalid
  <2>3. result' = None
    BY DEF IInv, NotesAccounted, DecideInvalid
  <2> QED BY <2>1, <2>2, <2>3 DEF IInv, NotesAccounted, DecideInvalid
<1>7. Earned'
  BY DEF IInv, Earned, StillWorking, DoneForAReason, StatusIsEarned, Artifact, DecideInvalid
<1> QED BY <1>3, <1>4, <1>5, <1>6, <1>7 DEF IInv

LEMMA DecideCallStep == ASSUME IInv, DecideCall PROVE IInv'
<1>1. PICK t \in Tools, speaks \in BOOLEAN :
        /\ t = Handoff => HandoffAllowed
        /\ call' = [tool |-> t, id |-> iterations + 1]
        /\ said' = Streamed(speaks)
        /\ IF t \in Writes
             THEN /\ card' = [id |-> iterations + 1, notes |-> Noted(speaks)]
                  /\ notes' = <<>>
             ELSE /\ card' = None
                  /\ notes' = Noted(speaks)
  BY DEF DecideCall
<1> DEFINE spoken == Noted(speaks)
<1>2. /\ iterations + 1 \in Decisions
      /\ spoken \in Seq(Ids) /\ said' \subseteq Ids
      /\ said' \ lost = (said \ lost) \cup IF executed /\ speaks THEN {NewId} ELSE {}
      /\ Range(spoken) = Range(notes) \cup IF executed /\ speaks THEN {NewId} ELSE {}
  BY <1>1, NotedNotes DEF IInv, DecideCall
<1> HIDE DEF spoken
<1>3. /\ call' \in Calls /\ call'.tool = t /\ call'.id = iterations + 1
      /\ node' = IF t \in Writes THEN "confirm_tool" ELSE "execute_tool"
  BY <1>1, <1>2 DEF DecideCall, AfterDecide, Calls
<1>4. t \in Writes => card' \in Cards /\ card'.id = iterations + 1 /\ card'.notes = spoken
  BY <1>1, <1>2 DEF Cards, spoken
<1>5. FlagsOK'
  BY Zenon DEF IInv, FlagsOK, DecideCall
<1>6. DataOK'
  <2>1. notes' \in Seq(Ids) /\ (card' = None \/ card' \in Cards)
    <3>1. CASE t \in Writes
      BY <1>1, <1>4, <3>1
    <3>2. CASE t \notin Writes
      BY <1>1, <1>2, <3>2 DEF spoken
    <3> QED BY <3>1, <3>2
  <2>2. iterations' \in 0..MaxIterations
    BY <1>2 DEF DecideCall, Decisions
  <2> QED BY <1>2, <1>3, <2>1, <2>2 DEF IInv, DataOK, DecideCall
<1>7. CallIsReady' /\ WritesAreApproved'
  BY <1>1, <1>3, <1>4 DEF IInv, CallIsReady, WritesAreApproved, DecideCall, HandoffAllowed, Artifact
<1>8. NotesAccounted'
  <2>1. said \ lost = Delivered \cup Range(notes)
    BY DEF IInv, NotesAccounted, DecideCall
  <2>2. said' \ lost' = Delivered' \cup Range(spoken)
    BY <1>2, <2>1 DEF DecideCall, Delivered
  <2>3. said' \ lost' =
          Delivered' \cup Range(notes') \cup IF node' = "confirm_tool" THEN Range(card'.notes) ELSE {}
    <3>1. CASE t \in Writes
      <4>1. Range(notes') = {}
        BY <1>1, <3>1 DEF Range
      <4> QED BY <1>3, <1>4, <2>2, <3>1, <4>1
    <3>2. CASE t \notin Writes
      BY <1>1, <1>3, <2>2, <3>2 DEF spoken
    <3> QED BY <3>1, <3>2
  <2>4. /\ \A m, n \in said' \ lost' : m.made = n.made => m = n
        /\ \A n \in said' \ lost' : n.made <= iterations'
        /\ \A n \in lost' : n.try < faults'
    BY <1>1, DecidedOnce DEF IInv, DecideCall
  <2>5. result' = None
    BY DEF IInv, NotesAccounted, DecideCall
  <2> QED BY <2>3, <2>4, <2>5 DEF IInv, NotesAccounted, DecideCall
<1>9. Earned'
  BY <1>3 DEF IInv, Earned, StillWorking, DoneForAReason, StatusIsEarned, Artifact, DecideCall
<1> QED BY <1>5, <1>6, <1>7, <1>8, <1>9 DEF IInv

\* What a lost decision streamed is lost with it; the next execution has a new id.
LEMMA DecideLostStep == ASSUME IInv, DecideLost PROVE IInv'
<1> USE DEF control
<1>1. PICK speaks \in BOOLEAN : said' = Streamed(speaks) /\ lost' = lost \cup (said' \ said)
  BY DEF DecideLost
<1>2. /\ NewId \in Ids /\ NewId.try = faults /\ said' \subseteq Ids
  BY <1>1, NotedNotes DEF IInv, DecideLost
<1>3. said \subseteq said' /\ said' \ said \subseteq {NewId}
  BY <1>1 DEF Streamed
<1>4. said' \ lost' = said \ lost
  BY <1>1, <1>3
<1>5. FlagsOK'
  BY Zenon DEF IInv, FlagsOK, DecideLost
<1>6. DataOK'
  BY <1>1, <1>2 DEF IInv, DataOK, DecideLost
<1>7. CallIsReady' /\ WritesAreApproved'
  BY DEF IInv, CallIsReady, WritesAreApproved, DecideLost
<1>8. NotesAccounted'
  <2>1. \A n \in lost' : n.try < faults'
    <3>1. \A n \in lost' : (n \in lost /\ n.try \in Nat) \/ n = NewId
      BY <1>1, <1>3 DEF IInv, DataOK, Ids
    <3> QED BY <1>2, <3>1 DEF IInv, DataOK, NotesAccounted, DecideLost
  <2> QED BY <1>4, <2>1 DEF IInv, NotesAccounted, Delivered, DecideLost
<1>9. Earned'
  BY DEF IInv, Earned, StillWorking, DoneForAReason, StatusIsEarned, Artifact, DecideLost
<1> QED BY <1>5, <1>6, <1>7, <1>8, <1>9 DEF IInv

LEMMA DecideTextStep == ASSUME IInv, DecideText PROVE IInv'
<1> USE DEF DecideText, history
<1>1. FlagsOK'
  BY Zenon DEF IInv, FlagsOK
<1>2. DataOK'
  BY DEF IInv, DataOK
<1>3. CallIsReady' /\ WritesAreApproved'
  BY DEF IInv, CallIsReady, WritesAreApproved
<1>4. NotesAccounted'
  <2>1. \A n \in said \ lost : n.made <= iterations'
    BY IdsAreNumbers DEF IInv, NotesAccounted
  <2> QED BY <2>1 DEF IInv, NotesAccounted, Delivered
<1>5. Earned'
  BY DEF IInv, Earned, StillWorking, DoneForAReason, StatusIsEarned, Artifact, AllSucceeded
<1> QED BY <1>1, <1>2, <1>3, <1>4, <1>5 DEF IInv

LEMMA ConfirmStep == ASSUME IInv, Confirm PROVE IInv'
<1>1. /\ card \in Cards /\ call \in Calls /\ card.id = call.id /\ card.id \in Decisions
      /\ card.notes \in Seq(Ids)
  BY DEF IInv, CallIsReady, Confirm, Cards
<1>2. /\ conversation' \in [Ids -> Nat]
      /\ \A n \in Ids : conversation'[n] <= 1
      /\ Delivered' = Delivered \cup Range(card.notes)
  BY <1>1, DeliverOnce DEF IInv, DataOK, NotesAccounted, Confirm
<1>3. FlagsOK'
  BY Zenon DEF IInv, FlagsOK, Confirm
<1>4. DataOK'
  BY <1>1, <1>2 DEF IInv, DataOK, Confirm
<1>5. CallIsReady' /\ WritesAreApproved'
  <2>1. /\ call.tool \in Writes
        /\ call.tool # Handoff
    BY DEF IInv, CallIsReady, Confirm
  <2> QED BY <1>1, <2>1 DEF IInv, CallIsReady, WritesAreApproved, Confirm
<1>6. NotesAccounted'
  BY <1>2 DEF IInv, NotesAccounted, Confirm
<1>7. Earned'
  BY DEF IInv, Earned, StillWorking, DoneForAReason, StatusIsEarned, NotesAccounted, Artifact,
         AllSucceeded, Confirm
<1> QED BY <1>3, <1>4, <1>5, <1>6, <1>7 DEF IInv

LEMMA ConfirmLostStep == ASSUME IInv, ConfirmLost PROVE IInv'
<1> USE DEF ConfirmLost, control, history
<1>1. card.notes \in Seq(Ids)
  BY DEF IInv, CallIsReady, Cards
<1>2. /\ conversation' \in [Ids -> Nat]
      /\ \A n \in Ids : conversation'[n] <= 1
      /\ Delivered' = Delivered \cup Range(card.notes)
  BY <1>1, DeliverOnce DEF IInv, DataOK, NotesAccounted
<1>3. FlagsOK'
  BY Zenon DEF IInv, FlagsOK
<1>4. DataOK'
  BY <1>2 DEF IInv, DataOK
<1>5. CallIsReady' /\ WritesAreApproved'
  BY DEF IInv, CallIsReady, WritesAreApproved
<1>6. NotesAccounted'
  <2>1. \A n \in lost : n.try < faults'
    BY IdsAreNumbers DEF IInv, NotesAccounted
  <2> QED BY <1>2, <2>1 DEF IInv, NotesAccounted
<1>7. Earned'
  BY DEF IInv, Earned, StillWorking, DoneForAReason, StatusIsEarned, Artifact
<1> QED BY <1>3, <1>4, <1>5, <1>6, <1>7 DEF IInv

LEMMA InvokeToolStep == ASSUME IInv, InvokeTool PROVE IInv'
<1> USE DEF InvokeTool, control
<1>1. FlagsOK'
  BY Zenon DEF IInv, FlagsOK
<1>2. DataOK'
  BY DEF IInv, DataOK, CallIsReady, Calls
<1>3. CallIsReady' /\ WritesAreApproved'
  BY DEF IInv, CallIsReady, WritesAreApproved, HandoffAllowed, Artifact
<1>4. NotesAccounted'
  BY DEF IInv, NotesAccounted, Delivered
<1>5. Earned'
  BY DEF IInv, Earned, StillWorking, DoneForAReason, StatusIsEarned, Artifact
<1> QED BY <1>1, <1>2, <1>3, <1>4, <1>5 DEF IInv

\* The run of a write is approved before its outcome is archived; with its
\* outcome the call is done with.
LEMMA ArchiveStep == ASSUME IInv, Archive PROVE IInv'
<1> DEFINE entry == [tool |-> call.tool, success |-> outcome]
<1>1. /\ call \in Calls /\ outcome \in BOOLEAN /\ node = "execute_tool"
      /\ entry \in Entries
      /\ results \in Seq(Entries)
      /\ results' = Append(results, entry)
  <2>1. outcome \in BOOLEAN
    BY DEF IInv, FlagsOK, Archive
  <2> QED BY <2>1 DEF IInv, DataOK, CallIsReady, Archive, Calls, Entries
<1> HIDE DEF entry
<1>2. /\ results' \in Seq(Entries)
      /\ results' # <<>> /\ Last(results') = entry
      /\ \A i \in DOMAIN results' :
           results'[i] = entry \/ (i \in DOMAIN results /\ results'[i] = results[i])
  BY <1>1, LastOfAppend
<1>9. entry.tool = call.tool /\ entry.success = outcome
  BY DEF entry
<1>3. PICK empty \in BOOLEAN :
        /\ answer' = (waiting' /\ ~empty)
        /\ node' = AfterExecute(outcome, empty)
  BY DEF Archive
<1>4. FlagsOK'
  BY Zenon, <1>3 DEF IInv, FlagsOK, Archive
<1>5. DataOK'
  <2>1. node' \in {"decide", "finish", "respond"}
    BY <1>3 DEF AfterExecute
  <2> QED BY <1>2, <2>1 DEF IInv, DataOK, Archive, history
<1>6. CallIsReady' /\ WritesAreApproved'
  BY <1>3 DEF IInv, CallIsReady, WritesAreApproved, Archive, AfterExecute, history
<1>7. NotesAccounted'
  BY <1>1, <1>3 DEF IInv, NotesAccounted, Delivered, Archive, AfterExecute, history
<1>8. Earned'
  <2>1. result = None \/ node = "end"
    BY DEF IInv, NotesAccounted
  <2>2. result' = None
    BY <1>1, <2>1 DEF Archive
  <2>3. StillWorking'
    BY <1>1, <1>2, <1>3, <1>9 DEF IInv, Earned, StillWorking, Archive, AfterExecute
  <2>4. DoneForAReason'
    <3>1. /\ ~rejected' /\ results' # <<>>
          /\ outcome => AllSucceeded'
      BY <1>1, <1>2, <1>9 DEF IInv, Earned, StillWorking, AllSucceeded, Archive
    <3>2. handoff' =>
            /\ Last(results') = [tool |-> Handoff, success |-> TRUE]
            /\ node' = "finish"
      BY <1>1, <1>2, <1>3 DEF Archive, AfterExecute, entry
    <3>3. handoff' => Artifact' \cap Writes = {}
      <4>1. handoff' => call.tool = Handoff /\ Artifact \cap Writes = {}
        BY <1>1 DEF IInv, CallIsReady, HandoffAllowed, Archive
      <4>2. Artifact' \subseteq Artifact \cup {call.tool}
        BY <1>2, <1>9 DEF Artifact
      <4> QED BY <4>1, <4>2
    <3>4. /\ waiting' => Last(results') = [tool |-> Ask, success |-> TRUE]
          /\ failed' => ~Last(results').success
          /\ failed' \/ outcome
      BY <1>1, <1>2, <1>3, <1>9 DEF Archive, entry
    <3> QED BY <3>1, <3>2, <3>3, <3>4 DEF DoneForAReason
  <2> QED BY <2>2, <2>3, <2>4 DEF Earned, StatusIsEarned
<1> QED BY <1>4, <1>5, <1>6, <1>7, <1>8 DEF IInv

LEMMA ExecutionLostStep == ASSUME IInv, ExecutionLost PROVE IInv'
<1> USE DEF ExecutionLost, control, history
<1>1. FlagsOK'
  BY Zenon DEF IInv, FlagsOK
<1>2. DataOK'
  BY DEF IInv, DataOK
<1>3. CallIsReady' /\ WritesAreApproved'
  BY DEF IInv, CallIsReady, WritesAreApproved, HandoffAllowed, Artifact
<1>4. NotesAccounted'
  <2>1. \A n \in lost : n.try < faults'
    BY IdsAreNumbers DEF IInv, NotesAccounted
  <2> QED BY <2>1 DEF IInv, NotesAccounted, Delivered
<1>5. Earned'
  BY DEF IInv, Earned, StillWorking, DoneForAReason, StatusIsEarned, Artifact
<1> QED BY <1>1, <1>2, <1>3, <1>4, <1>5 DEF IInv

LEMMA StatusType == Status \in Statuses
  BY DEF Status, Statuses

\* A result that is reported takes the notes along.
LEMMA ReportStep ==
  ASSUME IInv, node \in {"finish", "respond"},
         NEW status \in Statuses, NEW artifact \in SUBSET Tools, Report(status, artifact),
         UNCHANGED <<control, call, approved, card, notes, results, outcome, history, faults>>,
         status = "completed" => AllSucceeded /\ ~rejected,
         status = "rejected" => rejected,
         status = "failed" => failed,
         status = "waiting_input" => waiting,
         status = "handed_off" => handoff
  PROVE  IInv'
<1> USE DEF Report, control, history
<1>1. /\ conversation' \in [Ids -> Nat]
      /\ \A n \in Ids : conversation'[n] <= 1
      /\ Delivered' = Delivered \cup Range(notes)
  BY DeliverOnce DEF IInv, DataOK, NotesAccounted
<1>2. FlagsOK'
  BY Zenon DEF IInv, FlagsOK
<1>3. DataOK'
  BY <1>1 DEF IInv, DataOK, Ended
<1>4. CallIsReady' /\ WritesAreApproved'
  BY DEF IInv, CallIsReady, WritesAreApproved
<1>5. NotesAccounted'
  BY <1>1 DEF IInv, NotesAccounted
<1>6. Earned'
  BY DEF IInv, Earned, StillWorking, DoneForAReason, StatusIsEarned, Artifact, AllSucceeded
<1> QED BY <1>2, <1>3, <1>4, <1>5, <1>6 DEF IInv

LEMMA ArtifactType == ASSUME IInv PROVE Artifact \in SUBSET Tools
<1>1. results \in Seq(Entries)
  BY DEF IInv, DataOK
<1>2. \A i \in DOMAIN results : results[i] \in Entries
  BY <1>1
<1>3. \A i \in DOMAIN results : results[i].tool \in Tools
  BY <1>2 DEF Entries
<1> QED BY <1>3 DEF Artifact

LEMMA FinishStep == ASSUME IInv, Finish PROVE IInv'
<1>1. CASE handoff
  BY <1>1, ReportStep DEF Finish, Statuses
<1>2. CASE ~handoff
  <2>1. /\ Status = "completed" => AllSucceeded /\ ~rejected
        /\ Status = "rejected" => rejected
        /\ Status = "failed" => failed
        /\ Status = "waiting_input" => waiting
        /\ Status # "handed_off"
    BY DEF IInv, Earned, DoneForAReason, Status, Finish
  <2> QED BY <1>2, <2>1, StatusType, ArtifactType, ReportStep DEF Finish
<1> QED BY <1>1, <1>2

LEMMA RespondStep == ASSUME IInv, Respond PROVE IInv'
<1>1. CASE Report(Status, Artifact)
  <2>1. /\ Status = "completed" => AllSucceeded /\ ~rejected
        /\ Status = "rejected" => rejected
        /\ Status = "failed" => failed
        /\ Status = "waiting_input" => waiting
        /\ Status # "handed_off"
    BY DEF IInv, Earned, DoneForAReason, Status, Respond
  <2> QED BY <1>1, <2>1, StatusType, ArtifactType, ReportStep DEF Respond
<1>2. CASE node' = "raised" /\ UNCHANGED <<result, conversation>>
  <2> USE <1>2 DEF Respond, control, history
  <2>1. FlagsOK'
    BY Zenon DEF IInv, FlagsOK
  <2>2. DataOK'
    BY DEF IInv, DataOK, Ended
  <2>3. CallIsReady' /\ WritesAreApproved'
    BY DEF IInv, CallIsReady, WritesAreApproved
  <2>4. NotesAccounted'
    BY DEF IInv, NotesAccounted, Delivered
  <2>5. Earned'
    BY DEF IInv, Earned, StillWorking, DoneForAReason, StatusIsEarned, NotesAccounted, Artifact
  <2> QED BY <2>1, <2>2, <2>3, <2>4, <2>5 DEF IInv
<1> QED BY <1>1, <1>2 DEF Respond

LEMMA Stutters == ASSUME IInv, UNCHANGED vars PROVE IInv'
<1> USE DEF vars, control, history
<1>1. FlagsOK'
  BY Zenon DEF IInv, FlagsOK
<1>2. DataOK'
  BY DEF IInv, DataOK
<1>3. CallIsReady' /\ WritesAreApproved'
  BY DEF IInv, CallIsReady, WritesAreApproved, HandoffAllowed, Artifact
<1>4. NotesAccounted'
  BY DEF IInv, NotesAccounted, Delivered
<1>5. Earned'
  BY DEF IInv, Earned, StillWorking, DoneForAReason, StatusIsEarned, Artifact, AllSucceeded
<1> QED BY <1>1, <1>2, <1>3, <1>4, <1>5 DEF IInv

-----------------------------------------------------------------------------
\* Types, approval, notes and status hold together in every state: each node
\* relies on what the nodes before it established.
THEOREM InvariantHolds == Spec => []IInv
<1>1. IInv /\ [Next]_vars => IInv'
  BY InitializeStep, DecideOverLimitStep, DecideInvalidStep, DecideCallStep, DecideTextStep,
     DecideLostStep, ConfirmStep, ConfirmLostStep, InvokeToolStep, ArchiveStep, ExecutionLostStep,
     FinishStep, RespondStep, Stutters
     DEF Next, Step
<1> QED BY Starts, <1>1, PTL DEF Spec

\* The variables of a task stay within their types (graph/state.py, DomainState).
THEOREM TypeCorrect == Spec => []TypeOK
<1>1. IInv => TypeOK
  BY Zenon DEF IInv, FlagsOK, DataOK, TypeOK, Entries
<1> QED BY InvariantHolds, <1>1, PTL

\* No write tool runs without the user's approval of that very call
\* (domain.py, confirm_tool before execute_tool).
THEOREM NoUnapprovedWrite == Spec => []WritesAreApproved
<1>1. IInv => WritesAreApproved
  BY DEF IInv
<1> QED BY InvariantHolds, <1>1, PTL

\* The status of a result is what happened (domain.py, _result).
THEOREM StatusTellsTheTruth == Spec => []StatusIsEarned
<1>1. IInv => StatusIsEarned
  BY DEF IInv, Earned
<1> QED BY InvariantHolds, <1>1, PTL

\* What was said while tools were called, by decisions that were checkpointed, is in
\* the conversation once the task has its result, one version of each and once only;
\* what lost executions of decide streamed is not (domain.py 226, 231 and 266,
\* routes.py _resume_command).
THEOREM NotesArriveOnce == Spec => []NotesReachConversationOnce
<1>1. ASSUME IInv PROVE NotesReachConversationOnce
  <2>1. Delivered \subseteq said \ lost
    BY <1>1 DEF IInv, NotesAccounted
  <2>2. \A m, n \in Ids :
          conversation[m] = 1 /\ conversation[n] = 1 /\ m.made = n.made => m = n
    BY <1>1, <2>1 DEF IInv, NotesAccounted, Delivered
  <2> QED BY <1>1, <2>2 DEF IInv, NotesAccounted, NotesReachConversationOnce, Delivered
<1> QED BY InvariantHolds, <1>1, PTL
=============================================================================
