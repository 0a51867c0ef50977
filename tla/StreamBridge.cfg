\* A buffer of two under four events, so that a slow reader falls out of the
\* window while it is still yielding a batch; two connections.  Liveness rules
\* out symmetry.
SPECIFICATION FairSpec
CONSTANTS
    Subscribers = {s1, s2}
    Payloads = {p1, p2}
    BufferSize = 2
    MaxEvents = 4
INVARIANTS
    ReplayContiguous
    NoLostWakeup
PROPERTIES
    FeedSpec
    SubscriberReleased
