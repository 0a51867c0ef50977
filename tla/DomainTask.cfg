CONSTANTS
  Reads = {"query"}
  Writes = {"submit", "update"}
  Ask = "request_information"
  Handoff = "handoff_task"
  MaxIterations = 4
  MaxFaults = 2
  None = None
SPECIFICATION FairSpec
INVARIANTS WritesAreApproved StatusIsEarned NotesReachConversationOnce
PROPERTIES TaskEnds
CHECK_DEADLOCK FALSE
