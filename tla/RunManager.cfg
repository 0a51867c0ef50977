\* Two runs of one conversation and one client that starts, leaves, attaches
\* and starts again: a new run against the tail, the retention timer and the
\* watchers of the previous one, and the shutdown against all of them.  The
\* buffer holds one event, so that a watcher that falls behind meets the gap.
SPECIFICATION FairSpec
CONSTANTS
    Conversations = {conv}
    Requests = {q1}
    RunIds = {r1, r2}
    Clients = {k1}
    Window = 1
    MaxProgress = 1
    Outcomes = {"completed"}
    None = None
INVARIANTS
    OneExecutionPerConversation
    StatusMatchesTask
    EndsWithVerdict
PROPERTIES
    RunsAreReclaimed
    WatchersAreReleased
\* All runs used up and the process shut down.
CHECK_DEADLOCK FALSE
