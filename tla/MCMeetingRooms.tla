---------------------------- MODULE MCMeetingRooms ----------------------------
(* Small instance of MeetingRooms: one room and one that does not exist, three *)
(* hours, a preset tomorrow morning.                                           *)
EXTENDS MeetingRooms, TLC

Slot(room, day, start, end) == [room |-> room, day |-> day, start |-> start, end |-> end]
Asked == {Slot("A", 1, 0, 2), Slot("A", 1, 1, 3), Slot("A", 2, 0, 1), Slot("A", 1, 2, 3), Slot("X", 1, 1, 2)}
Short == {Slot("A", 1, 0, 2), Slot("A", 1, 1, 3), Slot("A", 2, 0, 1)}
Tomorrow == {[room |-> "A", offset |-> 1, start |-> 0, end |-> 1]}
Symmetry == Permutations(Books) \cup Permutations(Updates) \cup Permutations(Revokes)
==============================================================================
