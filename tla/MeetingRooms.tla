----------------------------- MODULE MeetingRooms -----------------------------
(***************************************************************************)
(* The meeting rooms of tools/local_enterprise.py: what is occupied lives  *)
(* in the memory of the process (_booked, by reference), what was booked   *)
(* in the ledger.  Every tool first asks _is_free, then awaits the ledger, *)
(* and only when that has answered writes _booked: other requests run at   *)
(* both places.  Presets are days relative to today, bookings are dates.   *)
(***************************************************************************)
EXTENDS Naturals, FiniteSets

CONSTANTS Books, Updates, Revokes,  \* calls, by their tool; a book call is its reference
          Rooms,                    \* rooms that exist
          Wanted,                   \* slots users ask for: [room, day, start, end]
          Preset,                   \* preset occupancy: [room, offset, start, end]
          MaxDay,                   \* days the process lives (bound)
          MaxFaults,                \* cancelled calls and restarts (bound)
          Nothing

Calls == Books \cup Updates \cup Revokes

ASSUME CallsAssumption ==
  Books \cap Updates = {} /\ Books \cap Revokes = {} /\ Updates \cap Revokes = {}
ASSUME SlotsAssumption ==
  \A s \in Wanted : s.start \in Nat /\ s.end \in Nat /\ s.start < s.end /\ s.day \in Nat
ASSUME BoundsAssumption == MaxDay \in Nat /\ MaxFaults \in Nat

VARIABLES booked,   \* _booked: reference -> slot
          ledger,   \* reference -> recorded booking
          phase,    \* where a call stands
          target,   \* the reference an update or revoke call names
          slot,     \* the slot a call wants
          answer,   \* what the call was answered
          logged,   \* calls of update and revoke with a row of their own
          today, faults,
          calm      \* history: no two calls have overlapped, none was stopped,
                    \* and the process has not restarted

roomVars == <<booked, ledger, phase, target, slot, answer, logged, today, faults, calm>>

Bookings == [slot: Wanted, revoked: BOOLEAN]
Outcomes == {"submitted", "updated", "revoked", "no_room", "occupied", "not_found", "is_revoked", "invalid"}

ASSUME NothingAssumption == Nothing \notin Books \cup Wanted \cup Bookings

RoomsTypeOK ==
  /\ booked \in [Books -> Wanted \cup {Nothing}]
  /\ ledger \in [Books -> Bookings \cup {Nothing}]
  /\ phase \in [Calls -> {"idle", "cleared", "written", "done"}]
  /\ target \in [Calls -> Books \cup {Nothing}]
  /\ slot \in [Calls -> Wanted \cup {Nothing}]
  /\ answer \in [Calls -> Outcomes \cup {Nothing}]
  /\ logged \subseteq Updates \cup Revokes
  /\ today \in 0..MaxDay
  /\ faults \in 0..MaxFaults
  /\ calm \in BOOLEAN
  \* a call under way has its arguments; one on an existing booking finds it recorded
  /\ \A c \in Calls : phase[c] \in {"cleared", "written"} =>
       /\ target[c] # Nothing
       /\ c \notin Revokes => slot[c] # Nothing
       /\ c \notin Books => ledger[target[c]] # Nothing

RoomsInit ==
  /\ booked = [r \in Books |-> Nothing]
  /\ ledger = [r \in Books |-> Nothing]
  /\ phase = [c \in Calls |-> "idle"]
  /\ target = [c \in Calls |-> Nothing]
  /\ slot = [c \in Calls |-> Nothing]
  /\ answer = [c \in Calls |-> Nothing]
  /\ logged = {}
  /\ today = 0
  /\ faults = 0
  /\ calm = TRUE

(***************************************************************************)
(* _occupied and _is_free.                                                 *)
(***************************************************************************)
PresetSlots == {[room |-> p.room, day |-> today + p.offset, start |-> p.start, end |-> p.end] : p \in Preset}

\* the occupied slots; ignore is the reference whose own slot does not count
OccupiedBut(ignore) == PresetSlots \cup {booked[r] : r \in {q \in Books \ ignore : booked[q] # Nothing}}

\* [mutant] only slots that begin inside the wanted one are seen
ClashesOneSided(s, o) == s.room = o.room /\ s.day = o.day /\ s.start <= o.start /\ o.start < s.end

\* half-open intervals: back-to-back meetings do not clash
Clashes(s, o) == s.room = o.room /\ s.day = o.day /\ s.start < o.end /\ o.start < s.end

IsFree(s, ignore) == \A o \in OccupiedBut(ignore) : ~Clashes(s, o)

Refuse(c, why) ==
  /\ phase' = [phase EXCEPT ![c] = "done"]
  /\ answer' = [answer EXCEPT ![c] = why]

\* no other call is between its check and its end
Alone(c) == \A d \in Calls \ {c} : phase[d] \notin {"cleared", "written"}

(***************************************************************************)
(* book_meeting_room.                                                      *)
(***************************************************************************)

\* the room exists and is free right now
BookCheck(c) ==
  /\ c \in Books
  /\ phase[c] = "idle"
  /\ calm' = (calm /\ Alone(c))
  /\ \E s \in (IF slot[c] = Nothing THEN Wanted ELSE {slot[c]}) :
       /\ slot' = [slot EXCEPT ![c] = s]
       /\ \/ s.room \notin Rooms /\ Refuse(c, "no_room")
          \/ s.room \in Rooms /\ ~IsFree(s, {}) /\ Refuse(c, "occupied")
          \/ /\ s.room \in Rooms /\ IsFree(s, {})
             /\ phase' = [phase EXCEPT ![c] = "cleared"]
             /\ UNCHANGED answer
  /\ target' = [target EXCEPT ![c] = c]
  /\ UNCHANGED <<booked, ledger, logged, today, faults>>

\* _record_write: execute_once keeps a row that is there
BookRecord(c) ==
  /\ c \in Books
  /\ phase[c] = "cleared"
  /\ ledger' = [ledger EXCEPT ![c] =
                  IF @ = Nothing THEN [slot |-> slot[c], revoked |-> FALSE] ELSE @]
  /\ phase' = [phase EXCEPT ![c] = "written"]
  /\ UNCHANGED <<booked, target, slot, answer, logged, today, faults, calm>>

\* _booked is written after the await
BookHold(c) ==
  /\ c \in Books
  /\ phase[c] = "written"
  /\ booked' = [booked EXCEPT ![c] = slot[c]]
  /\ Refuse(c, "submitted")
  /\ UNCHANGED <<ledger, target, slot, logged, today, faults, calm>>

(***************************************************************************)
(* update_meeting_booking.                                                 *)
(***************************************************************************)

\* _merged finds the booking unrevoked, the changes make a legal slot with what
\* is recorded, the room exists, and the slot is free once the booking's own
\* slot is left out.
MoveCheck(c) ==
  /\ c \in Updates
  /\ phase[c] = "idle"
  /\ calm' = (calm /\ Alone(c))
  /\ \E r \in (IF target[c] = Nothing THEN Books ELSE {target[c]}),
        s \in (IF slot[c] = Nothing THEN Wanted ELSE {slot[c]}) :
       /\ target' = [target EXCEPT ![c] = r]
       /\ slot' = [slot EXCEPT ![c] = s]
       /\ \/ ledger[r] = Nothing /\ Refuse(c, "not_found")
          \/ ledger[r] # Nothing /\ ledger[r].revoked /\ Refuse(c, "is_revoked")
          \/ /\ ledger[r] # Nothing /\ ~ledger[r].revoked
             /\ \/ Refuse(c, "invalid")
                \/ s.room \notin Rooms /\ Refuse(c, "no_room")
                \/ s.room \in Rooms /\ ~IsFree(s, {r}) /\ Refuse(c, "occupied")
                \/ /\ s.room \in Rooms /\ IsFree(s, {r})
                   /\ phase' = [phase EXCEPT ![c] = "cleared"]
                   /\ UNCHANGED answer
  /\ UNCHANGED <<booked, ledger, logged, today, faults>>

\* update_submitted: replayed, or the row is overwritten with no revocation mark
MoveRecord(c) ==
  /\ c \in Updates
  /\ phase[c] = "cleared"
  /\ ledger' = IF c \in logged THEN ledger
               ELSE [ledger EXCEPT ![target[c]] = [slot |-> slot[c], revoked |-> FALSE]]
  /\ logged' = logged \cup {c}
  /\ phase' = [phase EXCEPT ![c] = "written"]
  /\ UNCHANGED <<booked, target, slot, answer, today, faults, calm>>

\* [mutant] the moved booking keeps its old slot in memory
MoveForgotten(c) ==
  /\ c \in Updates
  /\ phase[c] = "written"
  /\ Refuse(c, "updated")
  /\ UNCHANGED <<booked, ledger, target, slot, logged, today, faults, calm>>

MoveHold(c) ==
  /\ c \in Updates
  /\ phase[c] = "written"
  /\ booked' = [booked EXCEPT ![target[c]] = slot[c]]
  /\ Refuse(c, "updated")
  /\ UNCHANGED <<ledger, target, slot, logged, today, faults, calm>>

(***************************************************************************)
(* revoke_meeting_booking.                                                 *)
(***************************************************************************)
RevokeCheck(c) ==
  /\ c \in Revokes
  /\ phase[c] = "idle"
  /\ calm' = (calm /\ Alone(c))
  /\ \E r \in (IF target[c] = Nothing THEN Books ELSE {target[c]}) :
       /\ target' = [target EXCEPT ![c] = r]
       /\ \/ ledger[r] = Nothing /\ Refuse(c, "not_found")
          \/ ledger[r] # Nothing /\ ledger[r].revoked /\ Refuse(c, "is_revoked")
          \/ /\ ledger[r] # Nothing /\ ~ledger[r].revoked
             /\ phase' = [phase EXCEPT ![c] = "cleared"]
             /\ UNCHANGED answer
  /\ UNCHANGED <<booked, ledger, slot, logged, today, faults>>

\* revoke_submitted: replayed, already revoked by another call, or marked
RevokeRecord(c) ==
  /\ c \in Revokes
  /\ phase[c] = "cleared"
  /\ IF c \in logged \/ ledger[target[c]].revoked
       THEN UNCHANGED <<ledger, logged>>
       ELSE /\ ledger' = [ledger EXCEPT ![target[c]].revoked = TRUE]
            /\ logged' = logged \cup {c}
  /\ phase' = [phase EXCEPT ![c] = "written"]
  /\ UNCHANGED <<booked, target, slot, answer, today, faults, calm>>

RevokeRelease(c) ==
  /\ c \in Revokes
  /\ phase[c] = "written"
  /\ booked' = [booked EXCEPT ![target[c]] = Nothing]
  /\ Refuse(c, "revoked")
  /\ UNCHANGED <<ledger, target, slot, logged, today, faults, calm>>

(***************************************************************************)
(* The environment.                                                        *)
(***************************************************************************)

\* A run is stopped in the middle of a tool; the card comes back and the same
\* call runs again.
Cancel(c) ==
  /\ phase[c] \in {"cleared", "written"}
  /\ faults < MaxFaults
  /\ phase' = [phase EXCEPT ![c] = "idle"]
  /\ faults' = faults + 1
  /\ calm' = FALSE
  /\ UNCHANGED <<booked, ledger, target, slot, answer, logged, today>>

\* The process restarts: the memory is gone, the ledger is not.
RestartRooms ==
  /\ faults < MaxFaults
  /\ booked' = [r \in Books |-> Nothing]
  /\ phase' = [c \in Calls |-> IF phase[c] = "done" THEN "done" ELSE "idle"]
  /\ faults' = faults + 1
  /\ calm' = FALSE
  /\ UNCHANGED <<ledger, target, slot, answer, logged, today>>

Midnight ==
  /\ today < MaxDay
  /\ today' = today + 1
  /\ UNCHANGED <<booked, ledger, phase, target, slot, answer, logged, faults, calm>>

RoomsNext ==
  \/ \E c \in Calls :
       \/ BookCheck(c) \/ BookRecord(c) \/ BookHold(c)
       \/ MoveCheck(c) \/ MoveRecord(c) \/ MoveHold(c)
       \/ RevokeCheck(c) \/ RevokeRecord(c) \/ RevokeRelease(c)
       \/ Cancel(c)
  \/ RestartRooms
  \/ Midnight

RoomsSpec == RoomsInit /\ [][RoomsNext]_roomVars

(***************************************************************************)
(* Properties.                                                             *)
(***************************************************************************)
Live(r) == ledger[r] # Nothing /\ ~ledger[r].revoked

\* an instant at which both slots want the room
Overlap(s, o) == /\ s.room = o.room /\ s.day = o.day
                 /\ (s.start .. s.end - 1) \cap (o.start .. o.end - 1) # {}

\* Two live bookings never need one room at one time: the check before the
\* write (comment at local_enterprise.py 251) keeps them apart.
RoomBookedOnce ==
  \A r \in Books : \A q \in Books \ {r} :
    Live(r) /\ Live(q) => ~Overlap(ledger[r].slot, ledger[q].slot)

\* It does as long as no two calls overlap, none is stopped half way and the
\* process lives on, through any sequence of bookings, moves and revocations
\* (two overlapping calls that both passed the check book the room twice).
NoDoubleBooking == calm => RoomBookedOnce

\* And as long as that is so, the memory says between calls what the ledger
\* says: each live booking holds exactly its slot and a revoked one none.
MemoryMatchesLedger ==
  calm /\ (\A c \in Calls : phase[c] \in {"idle", "done"}) =>
    \A r \in Books : booked[r] = IF Live(r) THEN ledger[r].slot ELSE Nothing

==============================================================================
