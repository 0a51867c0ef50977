----------------------------- MODULE EventFeed ------------------------------
(***************************************************************************)
(* What StreamBridge promises (the docstring of StreamBridge.subscribe in  *)
(* core/runs.py), without buffers, locks or batches: one growing log that  *)
(* is closed once, and readers that each receive it event by event from    *)
(* the position they asked for.  A reader may be told that its position    *)
(* is gone only when it is more than `Capacity` events behind, and that    *)
(* the feed is over only when it has received everything.                  *)
(***************************************************************************)
EXTENDS Integers, Sequences

CONSTANTS Subscribers, Payloads, Capacity

VARIABLES
    log,      \* everything published so far
    closed,   \* nothing more will be
    state,    \* "idle", "reading", "gap" or "end", per reader
    next,     \* how many events of the log a reader has behind it
    seen      \* what a reader has received since it opened the feed

vars == <<log, closed, state, next, seen>>

Init ==
    /\ log = <<>>
    /\ closed = FALSE
    /\ state = [s \in Subscribers |-> "idle"]
    /\ next = [s \in Subscribers |-> 0]
    /\ seen = [s \in Subscribers |-> <<>>]

Extend ==
    /\ ~closed
    /\ \E d \in Payloads : log' = Append(log, d)
    /\ UNCHANGED <<closed, state, next, seen>>

Close ==
    /\ ~closed
    /\ closed' = TRUE
    /\ UNCHANGED <<log, state, next, seen>>

Open(s) ==
    /\ state[s] # "reading"
    /\ state' = [state EXCEPT ![s] = "reading"]
    /\ next'[s] \in Nat /\ next' = [next EXCEPT ![s] = next'[s]]
    /\ seen' = [seen EXCEPT ![s] = <<>>]
    /\ UNCHANGED <<log, closed>>

Receive(s) ==
    /\ state[s] = "reading"
    /\ next[s] < Len(log)
    /\ next' = [next EXCEPT ![s] = @ + 1]
    /\ seen' = [seen EXCEPT ![s] = Append(@, log[next[s] + 1])]
    /\ UNCHANGED <<log, closed, state>>

Lose(s) ==
    /\ state[s] = "reading"
    /\ next[s] + Capacity < Len(log)
    /\ state' = [state EXCEPT ![s] = "gap"]
    /\ UNCHANGED <<log, closed, next, seen>>

Finish(s) ==
    /\ state[s] = "reading"
    /\ closed
    /\ next[s] >= Len(log)
    /\ state' = [state EXCEPT ![s] = "end"]
    /\ UNCHANGED <<log, closed, next, seen>>

Leave(s) ==
    /\ state[s] = "reading"
    /\ state' = [state EXCEPT ![s] = "idle"]
    /\ UNCHANGED <<log, closed, next, seen>>

Next ==
    \/ Extend
    \/ Close
    \/ \E s \in Subscribers :
        Open(s) \/ Receive(s) \/ Lose(s) \/ Finish(s) \/ Leave(s)

Spec == Init /\ [][Next]_vars
=============================================================================
