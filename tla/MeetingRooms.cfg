CONSTANTS
  Books = {b1, b2}
  Updates = {u1}
  Revokes = {r1}
  Rooms = {"A"}
  Wanted <- Asked
  Preset <- Tomorrow
  MaxDay = 1
  MaxFaults = 2
  Nothing = Nothing
SPECIFICATION RoomsSpec
SYMMETRY Symmetry
INVARIANTS NoDoubleBooking MemoryMatchesLedger
CHECK_DEADLOCK FALSE
