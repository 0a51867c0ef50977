---------------------------- MODULE StreamBridge ----------------------------
(***************************************************************************)
(* One _RunStream of MemoryStreamBridge (core/runs.py): the bounded event  *)
(* log of one background run, the task that publishes to it, and the       *)
(* subscribers that replay it from a cursor.                               *)
(*                                                                         *)
(* Every action is the code between two awaits.  The log is guarded by the *)
(* stream's condition variable, but subscribe() leaves the lock before it  *)
(* yields, so an arbitrary number of publications fits between taking a    *)
(* batch of events and handing each of them to the client.                 *)
(***************************************************************************)
EXTENDS Integers, Sequences

CONSTANTS
    Subscribers,   \* connections that may subscribe to the run
    Payloads,      \* what an event carries: name and data, opaque here
    BufferSize,    \* buffer_size, the number of events the log retains
    MaxEvents      \* bound: events the run publishes

ASSUME ConstantsAssumption ==
    /\ BufferSize \in Nat
    /\ MaxEvents \in Nat

VARIABLES
    events,        \* _RunStream.events, the retained window
    next_seq,      \* _RunStream.next_seq
    start_seq,     \* _RunStream.start_seq
    ended,         \* _RunStream.ended
    phase,         \* where each subscriber's generator stands
    cursor,        \* the local variable of each subscribe() call
    pending,       \* the batch a subscribe() call is still yielding
    published,     \* history: every payload appended, in order
    asked,         \* history: the last event the client said it has, -1 if none
    got            \* history: what the current subscription has yielded

streamVars == <<events, next_seq, start_seq, ended, published>>
readerVars == <<phase, cursor, pending, asked, got>>
vars == <<events, next_seq, start_seq, ended, published,
          phase, cursor, pending, asked, got>>

Event == [seq : Nat, data : Payloads]

\* "idle": no open subscription; "check": about to take the lock and look;
\* "wait": asleep on the condition; "deliver": yielding a batch;
\* "gap", "end": the generator has returned after that item.
Phases == {"idle", "check", "wait", "deliver", "gap", "end"}

Connected(s) == phase[s] \in {"check", "wait", "deliver"}

\* __init__: a buffer of size 0 would retain nothing.
Capacity == IF BufferSize > 1 THEN BufferSize ELSE 1

-----------------------------------------------------------------------------
Init ==
    /\ events = <<>>
    /\ next_seq = 0
    /\ start_seq = 0
    /\ ended = FALSE
    /\ published = <<>>
    /\ phase = [s \in Subscribers |-> "idle"]
    /\ cursor = [s \in Subscribers |-> 0]
    /\ pending = [s \in Subscribers |-> <<>>]
    /\ asked = [s \in Subscribers |-> -1]
    /\ got = [s \in Subscribers |-> <<>>]

\* Faulty variants of Notified: nobody is woken, or only one sleeper is.
NotifiedNobody(ph) == ph
NotifiedOne(ph) ==
    LET asleep == {s \in Subscribers : ph[s] = "wait"}
    IN  IF asleep = {} THEN ph
        ELSE [ph EXCEPT ![CHOOSE s \in asleep : TRUE] = "check"]

\* condition.notify_all(): every sleeper will take the lock again and look.
Notified(ph) ==
    [s \in Subscribers |-> IF ph[s] = "wait" THEN "check" ELSE ph[s]]

Overflow(n) == n - Capacity

\* del stream.events[:overflow]
Trimmed(log) ==
    IF Overflow(Len(log)) > 0
    THEN SubSeq(log, Overflow(Len(log)) + 1, Len(log))
    ELSE log

\* publish(): appends, trims from the front and wakes everybody.  Once the
\* stream has ended the code returns before it changes anything.
Publish(d) ==
    /\ ~ended
    /\ Len(published) < MaxEvents
    /\ events' = Trimmed(Append(events, [seq |-> next_seq, data |-> d]))
    /\ next_seq' = next_seq + 1
    /\ start_seq' = IF Overflow(Len(events) + 1) > 0
                    THEN events'[1].seq ELSE start_seq
    /\ phase' = Notified(phase)
    /\ published' = Append(published, d)
    /\ UNCHANGED <<ended, cursor, pending, asked, got>>

\* publish_end()
PublishEnd ==
    /\ ~ended
    /\ ended' = TRUE
    /\ phase' = Notified(phase)
    /\ UNCHANGED <<events, next_seq, start_seq, published,
                   cursor, pending, asked, got>>

-----------------------------------------------------------------------------
\* Where a subscription starts: 0 without Last-Event-ID, otherwise the event
\* after the one the client names.  `last` = -1 stands for None.
StartCursor(last) == IF last = -1 THEN 0 ELSE last + 1

\* A client (re)connects.  The cursor is whatever it sends, not checked
\* against the log.
Subscribe(s, last) ==
    /\ ~Connected(s)
    /\ phase' = [phase EXCEPT ![s] = "check"]
    /\ cursor' = [cursor EXCEPT ![s] = StartCursor(last)]
    /\ asked' = [asked EXCEPT ![s] = last]
    /\ pending' = [pending EXCEPT ![s] = <<>>]
    /\ got' = [got EXCEPT ![s] = <<>>]
    /\ UNCHANGED streamVars

\* The cursor points at an event the log no longer retains.
FellOut(c) == c < start_seq

\* Under the lock, first branch: report the gap and return.
LookGap(s) ==
    /\ phase[s] = "check"
    /\ FellOut(cursor[s])
    /\ phase' = [phase EXCEPT ![s] = "gap"]
    /\ UNCHANGED <<streamVars, cursor, pending, asked, got>>

\* A faulty variant of Window: the offset forgets what has been trimmed.
WindowUntrimmed(c) == SubSeq(events, c + 1, Len(events))

\* stream.events[offset:]
Window(c) == SubSeq(events, c - start_seq + 1, Len(events))

\* Second branch: copy everything from the cursor on and leave the lock.
LookDrain(s) ==
    /\ phase[s] = "check"
    /\ ~FellOut(cursor[s])
    /\ cursor[s] < next_seq
    /\ pending' = [pending EXCEPT ![s] = Window(cursor[s])]
    /\ cursor' = [cursor EXCEPT ![s] = next_seq]
    /\ phase' = [phase EXCEPT ![s] = "deliver"]
    /\ UNCHANGED <<streamVars, asked, got>>

\* A faulty variant of LookEnd: the end is noticed before the rest is drained.
LookEndFirst(s) ==
    /\ phase[s] = "check"
    /\ ended
    /\ phase' = [phase EXCEPT ![s] = "end"]
    /\ UNCHANGED <<streamVars, cursor, pending, asked, got>>

\* Third branch: nothing is left and nothing will come.
LookEnd(s) ==
    /\ phase[s] = "check"
    /\ cursor[s] >= start_seq /\ cursor[s] >= next_seq
    /\ ended
    /\ phase' = [phase EXCEPT ![s] = "end"]
    /\ UNCHANGED <<streamVars, cursor, pending, asked, got>>

\* Fourth branch: sleep on the condition, which releases the lock.
LookWait(s) ==
    /\ phase[s] = "check"
    /\ cursor[s] >= start_seq /\ cursor[s] >= next_seq
    /\ ~ended
    /\ phase' = [phase EXCEPT ![s] = "wait"]
    /\ UNCHANGED <<streamVars, cursor, pending, asked, got>>

\* wait_for() times out: yield HEARTBEAT_SENTINEL and look again.
Heartbeat(s) ==
    /\ phase[s] = "wait"
    /\ phase' = [phase EXCEPT ![s] = "check"]
    /\ UNCHANGED <<streamVars, cursor, pending, asked, got>>

\* `for item in pending: yield item`, one item.
Deliver(s) ==
    /\ phase[s] = "deliver"
    /\ got' = [got EXCEPT ![s] = Append(@, Head(pending[s]))]
    /\ pending' = [pending EXCEPT ![s] = Tail(@)]
    /\ phase' = [phase EXCEPT ![s] = IF Len(pending[s]) = 1 THEN "check"
                                     ELSE "deliver"]
    /\ UNCHANGED <<streamVars, cursor, asked>>

\* The client goes away: the generator is closed wherever it stands.
Disconnect(s) ==
    /\ Connected(s)
    /\ phase' = [phase EXCEPT ![s] = "idle"]
    /\ pending' = [pending EXCEPT ![s] = <<>>]
    /\ UNCHANGED <<streamVars, cursor, asked, got>>

Look(s) == LookGap(s) \/ LookDrain(s) \/ LookEnd(s) \/ LookWait(s)

Next ==
    \/ \E d \in Payloads : Publish(d)
    \/ PublishEnd
    \/ \E s \in Subscribers :
        \/ \E last \in -1..MaxEvents : Subscribe(s, last)
        \/ LookGap(s)
        \/ LookDrain(s)
        \/ LookEnd(s)
        \/ LookWait(s)
        \/ Heartbeat(s)
        \/ Deliver(s)
        \/ Disconnect(s)

Spec == Init /\ [][Next]_vars

\* _supervise ends the stream in its `finally`; a woken or draining generator
\* is driven by the server as long as the connection is open.  No fairness
\* for Heartbeat: nobody's progress may hang on the timeout.
FairSpec ==
    /\ Spec
    /\ WF_vars(PublishEnd)
    /\ \A s \in Subscribers : WF_vars(Look(s)) /\ WF_vars(Deliver(s))

-----------------------------------------------------------------------------
TypeOK ==
    /\ events \in Seq(Event)
    /\ next_seq \in Nat
    /\ start_seq \in Nat
    /\ ended \in BOOLEAN
    /\ published \in Seq(Payloads)
    /\ phase \in [Subscribers -> Phases]
    /\ cursor \in [Subscribers -> Nat]
    /\ pending \in [Subscribers -> Seq(Event)]
    /\ asked \in [Subscribers -> Nat \union {-1}]
    /\ got \in [Subscribers -> Seq(Event)]

\* How many of the run's events the client of s has, as far as it knows.
Position(s) == asked[s] + 1 + Len(got[s])

\* `seg` is the stretch of `log` that starts after `start` entries, each entry
\* with its number.
IsSegment(seg, start, log) ==
    /\ Len(seg) > 0 => start + Len(seg) <= Len(log)
    /\ \A i \in 1..Len(seg) :
        seg[i] = [seq |-> start + i - 1, data |-> log[start + i]]

\* The log retains exactly the newest events, at most `Capacity` of them, and
\* the two counters locate it: what subscribe() relies on when it turns a
\* cursor into an offset.
WindowExact ==
    /\ next_seq = Len(published)
    /\ start_seq + Len(events) = next_seq
    /\ Len(events) = IF next_seq < Capacity THEN next_seq ELSE Capacity
    /\ IsSegment(events, start_seq, published)

\* What a subscription yields is an unbroken run of the published events,
\* starting with the one after the last the client has: nothing lost, repeated
\* or reordered, however publishing and trimming interleave with delivery.
ReplayContiguous ==
    \A s \in Subscribers : IsSegment(got[s], asked[s] + 1, published)

\* The cursor has run ahead of what the client has been given by exactly the
\* batch still to be yielded, so that trimming the log cannot tear a batch.
BatchInSync ==
    \A s \in Subscribers :
        Connected(s) =>
            /\ cursor[s] = Position(s) + Len(pending[s])
            /\ IsSegment(pending[s], Position(s), published)
            /\ phase[s] = "deliver" <=> pending[s] # <<>>

\* END_SENTINEL means what a client takes it for: it has every event published
\* after the one it named, and no more will come.
EndMeansComplete ==
    \A s \in Subscribers :
        phase[s] = "end" => ended /\ Position(s) >= Len(published)

\* A gap is reported only when an event the client still needs is gone: the
\* client has fallen more than a whole buffer behind.
GapIsReal ==
    \A s \in Subscribers :
        phase[s] = "gap" => Position(s) + Capacity < Len(published)

\* No lost wake-up: a generator asleep on the condition has nothing to read
\* and the stream has not ended.
NoLostWakeup ==
    \A s \in Subscribers :
        phase[s] = "wait" => ~ended /\ cursor[s] >= next_seq

\* A connection that stays open hears the end of the run (or of its window)
\* even if no heartbeat timer ever fires.
SubscriberReleased ==
    \A s \in Subscribers :
        (ended /\ Connected(s)) ~> ~Connected(s)

-----------------------------------------------------------------------------
\* The refinement mapping to the feed the run endpoints assume.
feedState == [s \in Subscribers |->
    IF Connected(s) THEN "reading" ELSE phase[s]]
feedNext == [s \in Subscribers |-> Position(s)]
feedSeen == [s \in Subscribers |->
    [i \in 1..Len(got[s]) |-> got[s][i].data]]

Feed == INSTANCE EventFeed WITH
    log <- published, closed <- ended,
    state <- feedState, next <- feedNext, seen <- feedSeen

\* The bridge implements the feed: every step of the lock, batch and trimming
\* machinery is a step of one ever-growing log, or no visible step at all.
FeedSpec == Feed!Spec
=============================================================================
