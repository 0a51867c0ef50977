------------------------- MODULE StreamBridgeProofs -------------------------
(***************************************************************************)
(* Proofs about StreamBridge for every buffer size, payload set, number of *)
(* events and set of subscribers: the inductive invariant IInv, and that   *)
(* the bridge implements EventFeed.                                        *)
(***************************************************************************)
EXTENDS StreamBridge, SequenceTheorems, TLAPS

\* The conjunction of the invariants the run checks is inductive: BatchInSync
\* is what carries ReplayContiguous over a delivery, WindowExact what makes
\* the copied batch the right one.
IInv ==
    /\ TypeOK
    /\ WindowExact
    /\ ReplayContiguous
    /\ BatchInSync
    /\ EndMeansComplete
    /\ GapIsReal
    /\ NoLostWakeup

-----------------------------------------------------------------------------
\* max(1, buffer_size) is positive.
LEMMA CapacityPositive == Capacity \in Nat /\ Capacity >= 1
  BY ConstantsAssumption DEF ConstantsAssumption, Capacity

\* A segment of a log is a segment of the longer log.
LEMMA SegmentOfLongerLog ==
  ASSUME NEW S, NEW log \in Seq(S), NEW d \in S,
         NEW seg \in Seq(Event), NEW start \in Nat,
         IsSegment(seg, start, log)
  PROVE  IsSegment(seg, start, Append(log, d))
  BY DEF IsSegment, Event

\* Extending log and segment alike keeps the segment aligned.
LEMMA SegmentGrows ==
  ASSUME NEW log \in Seq(Payloads), NEW d \in Payloads,
         NEW seg \in Seq(Event), NEW start \in Nat,
         start + Len(seg) = Len(log),
         IsSegment(seg, start, log)
  PROVE  IsSegment(Append(seg, [seq |-> Len(log), data |-> d]), start,
                   Append(log, d))
  <1> DEFINE e == [seq |-> Len(log), data |-> d]
  <1>1. e \in Event
    BY DEF Event
  <1>2. /\ Len(Append(seg, e)) = Len(seg) + 1
        /\ \A i \in 1..Len(seg) : Append(seg, e)[i] = seg[i]
        /\ Append(seg, e)[Len(seg) + 1] = e
    BY <1>1
  <1>3. ASSUME NEW i \in 1..(Len(seg) + 1)
        PROVE  Append(seg, e)[i] =
                 [seq |-> start + i - 1, data |-> Append(log, d)[start + i]]
    <2>1. CASE i = Len(seg) + 1
      BY <2>1, <1>2
    <2>2. CASE i \in 1..Len(seg)
      <3>1. start + i \in 1..Len(log)
        BY <2>2
      <3>2. Append(log, d)[start + i] = log[start + i]
        BY <3>1
      <3> QED
        BY <2>2, <3>2, <1>2 DEF IsSegment
    <2> QED
      BY <2>1, <2>2
  <1> QED
    BY <1>2, <1>3 DEF IsSegment

\* Dropping the first k entries of a segment moves its start by k.
LEMMA SegmentSuffix ==
  ASSUME NEW log, NEW seg \in Seq(Event), NEW start \in Nat,
         IsSegment(seg, start, log), Len(log) \in Nat,
         NEW k \in 0..Len(seg)
  PROVE  /\ SubSeq(seg, k + 1, Len(seg)) \in Seq(Event)
         /\ Len(SubSeq(seg, k + 1, Len(seg))) = Len(seg) - k
         /\ IsSegment(SubSeq(seg, k + 1, Len(seg)), start + k, log)
  <1> DEFINE t == SubSeq(seg, k + 1, Len(seg))
  <1>1. /\ t \in Seq(Event)
        /\ Len(t) = Len(seg) - k
        /\ \A i \in 1..Len(t) : t[i] = seg[k + i]
    <2>1. \A i \in (k + 1)..Len(seg) : seg[i] \in Event
      OBVIOUS
    <2>2. Len(t) = IF k + 1 <= Len(seg) THEN Len(seg) - (k + 1) + 1 ELSE 0
      BY <2>1, SubSeqProperties
    <2>3. \A i \in 1..(Len(seg) - k) : t[i] = seg[(k + 1) + i - 1]
      BY <2>1, SubSeqProperties
    <2>4. t \in Seq(Event)
      BY <2>1, SubSeqProperties
    <2> QED
      BY <2>2, <2>3, <2>4
  <1> HIDE DEF t
  <1>2. \A i \in 1..Len(t) :
            t[i] = [seq |-> start + k + i - 1, data |-> log[start + k + i]]
    BY <1>1 DEF IsSegment
  <1>3. Len(t) > 0 => start + k + Len(t) <= Len(log)
    BY <1>1 DEF IsSegment
  <1>4. IsSegment(t, start + k, log)
    BY <1>2, <1>3 DEF IsSegment
  <1> QED
    BY <1>1, <1>4 DEF t

\* The types of what the invariants say about one subscriber.
LEMMA SubscriberTypes ==
  ASSUME TypeOK, NEW s \in Subscribers
  PROVE  /\ asked[s] \in Int /\ asked[s] + 1 \in Nat
         /\ got[s] \in Seq(Event) /\ Len(got[s]) \in Nat
         /\ pending[s] \in Seq(Event) /\ Len(pending[s]) \in Nat
         /\ cursor[s] \in Nat /\ phase[s] \in Phases
         /\ Position(s) \in Nat
  <1>1. /\ asked[s] \in Int /\ asked[s] + 1 \in Nat
        /\ got[s] \in Seq(Event)
        /\ pending[s] \in Seq(Event)
        /\ cursor[s] \in Nat /\ phase[s] \in Phases
    BY DEF TypeOK
  <1> QED
    BY <1>1, LenProperties DEF Position

-----------------------------------------------------------------------------
\* publish() keeps the invariant, the trimming included.
LEMMA PublishStep ==
  ASSUME IInv, NEW d \in Payloads, Publish(d)
  PROVE  IInv'
  <1> DEFINE e == [seq |-> next_seq, data |-> d]
             grown == Append(events, e)
             log2 == Append(published, d)
  <1> USE CapacityPositive
  <1>1. /\ e \in Event
        /\ published' = log2 /\ log2 \in Seq(Payloads)
        /\ Len(log2) = Len(published) + 1
        /\ next_seq' = next_seq + 1
        /\ UNCHANGED <<ended, cursor, pending, asked, got>>
        /\ ~ended
    BY DEF IInv, TypeOK, Publish, Event
  <1>2. /\ grown \in Seq(Event)
        /\ Len(grown) = Len(events) + 1
        /\ IsSegment(grown, start_seq, log2)
    BY <1>1, SegmentGrows DEF IInv, TypeOK, WindowExact
  <1>12. /\ events' = Trimmed(grown)
         /\ start_seq' = IF Overflow(Len(events) + 1) > 0
                         THEN events'[1].seq ELSE start_seq
    BY DEF Publish
  <1>3. /\ phase' \in [Subscribers -> Phases]
        /\ \A s \in Subscribers :
            /\ phase'[s] = IF phase[s] = "wait" THEN "check" ELSE phase[s]
            /\ phase'[s] # "wait"
    BY DEF IInv, TypeOK, Publish, Notified, Phases
  <1>4. /\ events' \in Seq(Event)
        /\ start_seq' \in Nat
        /\ WindowExact'
    <2> DEFINE k == Overflow(Len(grown))
    <2>1. k = Len(events) + 1 - Capacity /\ k <= 1
      BY <1>2 DEF Overflow, IInv, TypeOK, WindowExact
    <2>2. CASE k <= 0
      <3>1. events' = grown /\ start_seq' = start_seq
        BY <2>1, <2>2, <1>2 DEF Publish, Trimmed, Overflow
      <3>2. next_seq < Capacity /\ Len(events) = next_seq
        BY <2>1, <2>2 DEF IInv, TypeOK, WindowExact
      <3> QED
        BY <3>1, <3>2, <1>1, <1>2 DEF IInv, TypeOK, WindowExact
    <2>3. CASE k = 1
      <3> DEFINE kept == SubSeq(grown, 2, Len(grown))
      <3>1. /\ kept \in Seq(Event)
            /\ Len(kept) = Len(events)
            /\ IsSegment(kept, start_seq + 1, log2)
        <4>1. Len(log2) \in Nat /\ 1 \in 0..Len(grown) /\ start_seq \in Nat
          BY <1>1, <1>2 DEF IInv, TypeOK
        <4> HIDE DEF log2, grown
        <4>2. /\ SubSeq(grown, 1 + 1, Len(grown)) \in Seq(Event)
              /\ Len(SubSeq(grown, 1 + 1, Len(grown))) = Len(grown) - 1
              /\ IsSegment(SubSeq(grown, 1 + 1, Len(grown)), start_seq + 1, log2)
          BY <4>1, <1>2, SegmentSuffix
        <4> QED
          BY <4>2, <1>2 DEF IInv, TypeOK
      <3>2. events' = kept
        <4>1. Overflow(Len(grown)) = 1
          BY <2>3
        <4> HIDE DEF grown, k
        <4>2. events' = SubSeq(grown, Overflow(Len(grown)) + 1, Len(grown))
          BY <4>1, <1>12 DEF Trimmed
        <4> QED
          BY <4>1, <4>2
      <3>3. Len(events) >= 1 /\ Len(events) = Capacity
        BY <2>1, <2>3 DEF IInv, TypeOK
      <3>4. start_seq' = kept[1].seq
        <4>1. Overflow(Len(events) + 1) = 1
          BY <1>2, <2>3
        <4> HIDE DEF grown, k, kept
        <4> QED
          BY <4>1, <3>2, <1>12
      <3> HIDE DEF kept
      <3>5. kept[1].seq = start_seq + 1
        BY <3>1, <3>3 DEF IsSegment, IInv, TypeOK
      <3>6. next_seq >= Capacity
        BY <3>3 DEF IInv, TypeOK, WindowExact
      <3> HIDE DEF grown, log2
      <3>7. events' \in Seq(Event) /\ start_seq' = start_seq + 1 /\ start_seq \in Nat
        BY <3>1, <3>2, <3>4, <3>5 DEF IInv, TypeOK
      <3>8. /\ next_seq' = Len(published')
            /\ Len(events') = Len(events)
            /\ IsSegment(events', start_seq', published')
        BY <3>1, <3>2, <3>7, <1>1 DEF IInv, WindowExact
      <3>9. /\ start_seq + Len(events) = next_seq
            /\ Len(events) = Capacity /\ next_seq >= Capacity
            /\ next_seq \in Nat
        BY <3>3, <3>6 DEF IInv, TypeOK, WindowExact
      <3> QED
        BY <3>7, <3>8, <3>9, <1>1 DEF WindowExact, Capacity
    <2> HIDE DEF k
    <2> QED
      BY <2>1, <2>2, <2>3 DEF IInv, TypeOK
  <1> HIDE DEF log2, grown, e
  <1>5. TypeOK'
    BY <1>1, <1>3, <1>4 DEF IInv, TypeOK
  <1>0. TypeOK /\ Len(published) \in Nat
    BY LenProperties DEF IInv, TypeOK
  <1>6. ASSUME NEW seg \in Seq(Event), NEW start \in Nat,
               IsSegment(seg, start, published)
        PROVE  IsSegment(seg, start, log2)
    BY <1>6, SegmentOfLongerLog DEF log2, IInv, TypeOK
  <1>7. ReplayContiguous'
    BY <1>0, <1>1, <1>6, SubscriberTypes DEF IInv, ReplayContiguous
  <1>8. BatchInSync'
    BY <1>1, <1>3, <1>6
    DEF IInv, TypeOK, BatchInSync, Position, Connected, Phases
  <1>9. EndMeansComplete'
    BY <1>1, <1>3 DEF IInv, EndMeansComplete
  <1>10. GapIsReal'
    <2> SUFFICES ASSUME NEW s \in Subscribers, phase'[s] = "gap"
                 PROVE  (Position(s) + Capacity < Len(published))'
      BY DEF GapIsReal
    <2>1. phase[s] = "gap" /\ Position(s) + Capacity < Len(published)
      BY <1>3 DEF IInv, GapIsReal
    <2>2. Position(s)' = Position(s) /\ Capacity' = Capacity
      BY <1>1 DEF Position, Capacity
    <2> QED
      BY <2>1, <2>2, <1>0, <1>1, SubscriberTypes
  <1>11. NoLostWakeup'
    BY <1>3 DEF NoLostWakeup
  <1> QED
    BY <1>4, <1>5, <1>7, <1>8, <1>9, <1>10, <1>11 DEF IInv

\* publish_end() wakes every sleeper, so nobody sleeps on an ended stream.
LEMMA PublishEndStep ==
  ASSUME IInv, PublishEnd
  PROVE  IInv'
  <1>1. \A s \in Subscribers :
            /\ phase'[s] = IF phase[s] = "wait" THEN "check" ELSE phase[s]
            /\ phase'[s] # "wait"
    BY DEF PublishEnd, Notified
  <1>2. phase' \in [Subscribers -> Phases]
    BY DEF IInv, TypeOK, PublishEnd, Notified, Phases
  <1>3. TypeOK'
    BY <1>2 DEF IInv, TypeOK, PublishEnd
  <1>4. UNCHANGED <<events, next_seq, start_seq, published,
                    cursor, pending, asked, got>>
    BY DEF PublishEnd
  <1>5. WindowExact' /\ ReplayContiguous'
    BY <1>4 DEF IInv, WindowExact, ReplayContiguous, Capacity
  <1>6. BatchInSync'
    BY <1>1, <1>4 DEF IInv, BatchInSync, Connected, Position
  <1>7. EndMeansComplete' /\ GapIsReal'
    BY <1>1, <1>4
    DEF IInv, EndMeansComplete, GapIsReal, Position, PublishEnd, Capacity
  <1>8. NoLostWakeup'
    BY <1>1 DEF NoLostWakeup
  <1> QED
    BY <1>3, <1>5, <1>6, <1>7, <1>8 DEF IInv

\* What the invariant says about one subscriber alone.
SubscriberInv(s) ==
    /\ IsSegment(got[s], asked[s] + 1, published)
    /\ Connected(s) =>
        /\ cursor[s] = Position(s) + Len(pending[s])
        /\ IsSegment(pending[s], Position(s), published)
        /\ phase[s] = "deliver" <=> pending[s] # <<>>
    /\ phase[s] = "end" => ended /\ Position(s) >= Len(published)
    /\ phase[s] = "gap" => Position(s) + Capacity < Len(published)
    /\ phase[s] = "wait" => ~ended /\ cursor[s] >= next_seq

\* A step of one subscriber that leaves the log alone need only restore that
\* subscriber's part.
LEMMA OneSubscriberStep ==
  ASSUME IInv, NEW s \in Subscribers, TypeOK',
         UNCHANGED streamVars,
         \A t \in Subscribers \ {s} :
            /\ phase'[t] = phase[t] /\ cursor'[t] = cursor[t]
            /\ pending'[t] = pending[t] /\ asked'[t] = asked[t]
            /\ got'[t] = got[t],
         SubscriberInv(s)'
  PROVE  IInv'
  <1>1. WindowExact'
    BY DEF IInv, WindowExact, streamVars, Capacity
  <1>2. ASSUME NEW t \in Subscribers \ {s}
        PROVE  SubscriberInv(t)'
    <2>1. SubscriberInv(t)
      BY DEF IInv, SubscriberInv, ReplayContiguous, BatchInSync,
             EndMeansComplete, GapIsReal, NoLostWakeup
    <2> QED
      BY <2>1 DEF SubscriberInv, streamVars, Connected, Position, Capacity
  <1>3. \A t \in Subscribers : SubscriberInv(t)'
    BY <1>2
  <1> QED
    BY <1>1, <1>3
    DEF IInv, SubscriberInv, ReplayContiguous, BatchInSync,
        EndMeansComplete, GapIsReal, NoLostWakeup

LEMMA SubscriberInvHolds ==
  ASSUME IInv, NEW s \in Subscribers
  PROVE  SubscriberInv(s)
  BY DEF IInv, SubscriberInv, ReplayContiguous, BatchInSync,
         EndMeansComplete, GapIsReal, NoLostWakeup

\* subscribe() starts with nothing yielded and the cursor at its position.
LEMMA SubscribeStep ==
  ASSUME IInv, NEW s \in Subscribers, NEW last \in -1..MaxEvents,
         Subscribe(s, last)
  PROVE  IInv'
  <1>1. last \in Nat \union {-1} /\ StartCursor(last) \in Nat
        /\ StartCursor(last) = last + 1
    BY ConstantsAssumption DEF ConstantsAssumption, StartCursor
  <1>2. TypeOK'
    BY <1>1 DEF IInv, TypeOK, Subscribe, streamVars, Phases
  <1>3. /\ phase'[s] = "check" /\ cursor'[s] = last + 1
        /\ pending'[s] = <<>> /\ asked'[s] = last /\ got'[s] = <<>>
    BY <1>1 DEF IInv, TypeOK, Subscribe
  <1>4. SubscriberInv(s)'
    BY <1>1, <1>3 DEF SubscriberInv, IsSegment, Connected, Position
  <1> QED
    BY <1>2, <1>4, OneSubscriberStep DEF IInv, TypeOK, Subscribe

\* The four outcomes of looking at the log under the lock.
LEMMA LookGapStep ==
  ASSUME IInv, NEW s \in Subscribers, LookGap(s)
  PROVE  IInv'
  <1>1. TypeOK'
    BY DEF IInv, TypeOK, LookGap, streamVars, Phases
  <1>2. phase[s] = "check" /\ phase'[s] = "gap"
    BY DEF IInv, TypeOK, LookGap
  <1>3. SubscriberInv(s) /\ cursor[s] < start_seq
    BY SubscriberInvHolds DEF LookGap, FellOut
  <1>4. pending[s] = <<>> /\ cursor[s] = Position(s)
    BY <1>2, <1>3, SubscriberTypes DEF SubscriberInv, Connected, IInv
  <1>5. Position(s) + Capacity < Len(published)
    <2>1. /\ start_seq + Len(events) = Len(published)
          /\ Len(events) <= Capacity
          /\ start_seq > 0 => Len(events) = Capacity
          /\ Len(events) \in Nat /\ start_seq \in Nat
      BY LenProperties, CapacityPositive DEF IInv, TypeOK, WindowExact
    <2> QED
      BY <2>1, <1>3, <1>4, CapacityPositive, SubscriberTypes DEF IInv
  <1>6. SubscriberInv(s)'
    BY <1>2, <1>3, <1>5
    DEF SubscriberInv, LookGap, streamVars, Connected, Position, Capacity
  <1> QED
    BY <1>1, <1>6, OneSubscriberStep DEF IInv, TypeOK, LookGap

LEMMA LookDrainStep ==
  ASSUME IInv, NEW s \in Subscribers, LookDrain(s)
  PROVE  IInv'
  <1> DEFINE k == cursor[s] - start_seq
             batch == SubSeq(events, k + 1, Len(events))
  <1>1. /\ phase[s] = "check" /\ phase'[s] = "deliver"
        /\ cursor'[s] = next_seq
        /\ asked'[s] = asked[s] /\ got'[s] = got[s]
        /\ UNCHANGED streamVars
        /\ cursor[s] >= start_seq /\ cursor[s] < next_seq
    BY SubscriberTypes DEF IInv, TypeOK, LookDrain, FellOut
  <1>2. pending'[s] = batch
    BY DEF IInv, TypeOK, LookDrain, Window
  <1>3. SubscriberInv(s) /\ pending[s] = <<>> /\ cursor[s] = Position(s)
    BY <1>1, SubscriberInvHolds, SubscriberTypes DEF SubscriberInv, Connected, IInv
  <1>4. /\ k \in 0..Len(events) /\ k < Len(events)
        /\ start_seq + k = Position(s)
        /\ Len(published) \in Nat /\ events \in Seq(Event)
        /\ start_seq \in Nat /\ IsSegment(events, start_seq, published)
        /\ start_seq + Len(events) = next_seq
    <2>1. /\ events \in Seq(Event) /\ Len(events) \in Nat
          /\ start_seq \in Nat /\ cursor[s] \in Nat
          /\ published \in Seq(Payloads) /\ Len(published) \in Nat
      BY LenProperties DEF IInv, TypeOK
    <2>2. IsSegment(events, start_seq, published) /\ start_seq + Len(events) = next_seq
      BY DEF IInv, WindowExact
    <2>3. k \in 0..Len(events) /\ k < Len(events)
      BY <1>1, <2>1, <2>2
    <2>4. start_seq + k = Position(s)
      BY <2>1, <1>3
    <2> QED
      BY <2>1, <2>2, <2>3, <2>4
  <1>5. /\ batch \in Seq(Event)
        /\ Len(batch) = Len(events) - k
        /\ IsSegment(batch, Position(s), published)
    <2> HIDE DEF k
    <2> QED
      BY <1>4, SegmentSuffix
  <1> HIDE DEF batch
  <1>6. batch # <<>> /\ Position(s) + Len(batch) = next_seq
    BY <1>4, <1>5, LenProperties
  <1>7. TypeOK'
    BY <1>5, <1>2 DEF IInv, TypeOK, LookDrain, streamVars, Phases
  <1>8. SubscriberInv(s)'
    BY <1>1, <1>2, <1>3, <1>5, <1>6
    DEF SubscriberInv, streamVars, Connected, Position
  <1> QED
    BY <1>7, <1>8, OneSubscriberStep DEF IInv, TypeOK, LookDrain

LEMMA LookEndStep ==
  ASSUME IInv, NEW s \in Subscribers, LookEnd(s)
  PROVE  IInv'
  <1>1. TypeOK'
    BY DEF IInv, TypeOK, LookEnd, streamVars, Phases
  <1>2. phase[s] = "check" /\ phase'[s] = "end"
    BY DEF IInv, TypeOK, LookEnd
  <1>3. SubscriberInv(s) /\ pending[s] = <<>> /\ cursor[s] = Position(s)
    BY <1>2, SubscriberInvHolds, SubscriberTypes DEF SubscriberInv, Connected, IInv
  <1>4. SubscriberInv(s)'
    BY <1>2, <1>3
    DEF SubscriberInv, LookEnd, streamVars, Connected, Position, IInv, WindowExact
  <1> QED
    BY <1>1, <1>4, OneSubscriberStep DEF IInv, TypeOK, LookEnd

LEMMA LookWaitStep ==
  ASSUME IInv, NEW s \in Subscribers, LookWait(s)
  PROVE  IInv'
  <1>1. TypeOK'
    BY DEF IInv, TypeOK, LookWait, streamVars, Phases
  <1>2. phase[s] = "check" /\ phase'[s] = "wait"
    BY DEF IInv, TypeOK, LookWait
  <1>3. SubscriberInv(s)'
    BY <1>2, SubscriberInvHolds
    DEF SubscriberInv, LookWait, streamVars, Connected, Position
  <1> QED
    BY <1>1, <1>3, OneSubscriberStep DEF IInv, TypeOK, LookWait

LEMMA HeartbeatStep ==
  ASSUME IInv, NEW s \in Subscribers, Heartbeat(s)
  PROVE  IInv'
  <1>1. TypeOK'
    BY DEF IInv, TypeOK, Heartbeat, streamVars, Phases
  <1>2. phase[s] = "wait" /\ phase'[s] = "check"
    BY DEF IInv, TypeOK, Heartbeat
  <1>3. SubscriberInv(s)'
    BY <1>2, SubscriberInvHolds
    DEF SubscriberInv, Heartbeat, streamVars, Connected, Position
  <1> QED
    BY <1>1, <1>3, OneSubscriberStep DEF IInv, TypeOK, Heartbeat

LEMMA DisconnectStep ==
  ASSUME IInv, NEW s \in Subscribers, Disconnect(s)
  PROVE  IInv'
  <1>1. TypeOK'
    BY DEF IInv, TypeOK, Disconnect, streamVars, Phases
  <1>2. phase'[s] = "idle"
    BY DEF IInv, TypeOK, Disconnect
  <1>3. SubscriberInv(s)'
    BY <1>2, SubscriberInvHolds DEF SubscriberInv, Disconnect, streamVars, Connected
  <1> QED
    BY <1>1, <1>3, OneSubscriberStep DEF IInv, TypeOK, Disconnect

\* Yielding one event moves it from the batch to the client.
LEMMA DeliverStep ==
  ASSUME IInv, NEW s \in Subscribers, Deliver(s)
  PROVE  IInv'
  <1> DEFINE p == pending[s]
  <1>1. /\ phase[s] = "deliver"
        /\ phase'[s] = IF Len(p) = 1 THEN "check" ELSE "deliver"
        /\ got'[s] = Append(got[s], Head(p)) /\ pending'[s] = Tail(p)
        /\ cursor'[s] = cursor[s] /\ asked'[s] = asked[s]
        /\ UNCHANGED streamVars
    BY DEF IInv, TypeOK, Deliver
  <1>2. /\ SubscriberInv(s) /\ Connected(s)
        /\ p \in Seq(Event) /\ p # <<>>
        /\ got[s] \in Seq(Event) /\ asked[s] + 1 \in Nat
        /\ Position(s) \in Nat
    BY <1>1, SubscriberInvHolds, SubscriberTypes
    DEF SubscriberInv, Connected, IInv
  <1>3. /\ Len(p) \in Nat /\ Len(p) >= 1
        /\ Head(p) = p[1] /\ Head(p) \in Event
        /\ Tail(p) \in Seq(Event) /\ Len(Tail(p)) = Len(p) - 1
        /\ \A i \in 1..Len(Tail(p)) : Tail(p)[i] = p[i + 1]
    BY <1>2, HeadTailProperties, EmptySeq, LenProperties
  <1>4. /\ IsSegment(p, Position(s), published)
        /\ IsSegment(got[s], asked[s] + 1, published)
        /\ cursor[s] = Position(s) + Len(p)
        /\ Len(published) \in Nat
    BY <1>2, LenProperties DEF SubscriberInv, IInv, TypeOK
  <1> HIDE DEF p
  <1>5. p[1] = [seq |-> Position(s), data |-> published[Position(s) + 1]]
        /\ Position(s) + Len(p) <= Len(published)
    BY <1>2, <1>3, <1>4 DEF IsSegment
  <1>6. /\ got'[s] \in Seq(Event) /\ Len(got'[s]) = Len(got[s]) + 1
        /\ \A i \in 1..Len(got[s]) : got'[s][i] = got[s][i]
        /\ got'[s][Len(got[s]) + 1] = p[1]
    BY <1>1, <1>2, <1>3, AppendProperties
  <1>7. Position(s)' = Position(s) + 1
    BY <1>1, <1>2, <1>6, LenProperties DEF Position
  <1>8. IsSegment(got'[s], asked[s] + 1, published)
    <2>1. Len(got[s]) \in Nat /\ asked[s] + 1 + Len(got[s]) = Position(s)
      BY <1>2, LenProperties DEF Position
    <2>2. ASSUME NEW i \in 1..(Len(got[s]) + 1)
          PROVE  got'[s][i] = [seq |-> asked[s] + 1 + i - 1,
                               data |-> published[asked[s] + 1 + i]]
      <3>1. CASE i = Len(got[s]) + 1
        <4>1. /\ asked[s] + 1 + i - 1 = Position(s)
              /\ asked[s] + 1 + i = Position(s) + 1
          BY <3>1, <2>1, <1>2
        <4> QED
          BY <4>1, <3>1, <1>5, <1>6
      <3>2. CASE i \in 1..Len(got[s])
        BY <3>2, <1>4, <1>6 DEF IsSegment
      <3> QED
        BY <3>1, <3>2, <2>1
    <2>3. asked[s] + 1 + Len(got'[s]) <= Len(published)
      BY <2>1, <1>2, <1>3, <1>4, <1>5, <1>6
    <2> QED
      BY <2>2, <2>3, <1>6 DEF IsSegment
  <1>9. IsSegment(Tail(p), Position(s) + 1, published)
    <2>1. \A i \in 1..Len(Tail(p)) :
            Tail(p)[i] = [seq |-> Position(s) + 1 + i - 1,
                          data |-> published[Position(s) + 1 + i]]
      <3> TAKE i \in 1..Len(Tail(p))
      <3>1. i + 1 \in 1..Len(p) /\ Tail(p)[i] = p[i + 1]
        BY <1>3
      <3>2. p[i + 1] = [seq |-> Position(s) + (i + 1) - 1,
                        data |-> published[Position(s) + (i + 1)]]
        BY <3>1, <1>4 DEF IsSegment
      <3>3. /\ Position(s) + (i + 1) - 1 = Position(s) + 1 + i - 1
            /\ Position(s) + (i + 1) = Position(s) + 1 + i
        BY <3>1, <1>2, <1>3
      <3> QED
        BY <3>1, <3>2, <3>3
    <2>2. Position(s) + 1 + Len(Tail(p)) <= Len(published)
      BY <1>2, <1>3, <1>4, <1>5
    <2> QED
      BY <2>1, <2>2 DEF IsSegment
  <1>10. TypeOK'
    <2>1. /\ got' = [got EXCEPT ![s] = got'[s]]
          /\ pending' = [pending EXCEPT ![s] = Tail(p)]
          /\ phase' = [phase EXCEPT ![s] = phase'[s]]
      BY <1>1 DEF Deliver, IInv, TypeOK, p
    <2>2. phase'[s] \in Phases
      BY <1>1 DEF Phases
    <2> QED
      <3>1. got' \in [Subscribers -> Seq(Event)]
        BY <2>1, <1>6 DEF IInv, TypeOK
      <3>2. pending' \in [Subscribers -> Seq(Event)]
        BY <2>1, <1>3 DEF IInv, TypeOK
      <3>3. phase' \in [Subscribers -> Phases]
        BY <2>1, <2>2 DEF IInv, TypeOK
      <3>4. UNCHANGED <<streamVars, cursor, asked>>
        BY DEF Deliver
      <3> QED
        BY <3>1, <3>2, <3>3, <3>4 DEF IInv, TypeOK, streamVars
  <1>11. phase'[s] = "deliver" <=> pending'[s] # <<>>
    <2>1. Tail(p) = <<>> <=> Len(Tail(p)) = 0
      BY <1>3, EmptySeq
    <2>2. phase'[s] = "deliver" <=> Len(p) # 1
      BY <1>1
    <2> QED
      BY <2>1, <2>2, <1>1, <1>3
  <1>12. Connected(s)' /\ phase'[s] \notin {"end", "gap", "wait"}
    BY <1>1 DEF Connected
  <1>13. cursor'[s] = Position(s)' + Len(Tail(p))
    BY <1>1, <1>2, <1>3, <1>4, <1>7
  <1>14. SubscriberInv(s)'
    BY <1>1, <1>7, <1>8, <1>9, <1>11, <1>12, <1>13 DEF SubscriberInv, streamVars, p
  <1> QED
    BY <1>10, <1>14, OneSubscriberStep DEF IInv, TypeOK, Deliver

-----------------------------------------------------------------------------
\* Every step of the bridge preserves the invariant.
LEMMA NextStep ==
  ASSUME IInv, [Next]_vars
  PROVE  IInv'
  <1>1. CASE UNCHANGED vars
    BY <1>1 DEF vars, IInv, TypeOK, WindowExact, ReplayContiguous, BatchInSync,
                EndMeansComplete, GapIsReal, NoLostWakeup, Position,
                Connected, Capacity
  <1>2. CASE Next
    BY <1>2, PublishStep, PublishEndStep, SubscribeStep, LookGapStep,
       LookDrainStep, LookEndStep, LookWaitStep, HeartbeatStep, DeliverStep,
       DisconnectStep DEF Next
  <1> QED
    BY <1>1, <1>2

LEMMA InitStep == Init => IInv
  <1> SUFFICES ASSUME Init PROVE IInv
    OBVIOUS
  <1>1. TypeOK
    <2>1. <<>> \in Seq(Event) /\ <<>> \in Seq(Payloads) /\ -1 \in Nat \union {-1}
      OBVIOUS
    <2>2. /\ phase \in [Subscribers -> Phases]
          /\ cursor \in [Subscribers -> Nat]
          /\ asked \in [Subscribers -> Nat \union {-1}]
      BY <2>1 DEF Init, Phases
    <2>3. /\ pending \in [Subscribers -> Seq(Event)]
          /\ got \in [Subscribers -> Seq(Event)]
      BY <2>1 DEF Init
    <2> QED
      BY <2>1, <2>2, <2>3 DEF Init, TypeOK
  <1>2. WindowExact
    BY CapacityPositive DEF Init, WindowExact, IsSegment
  <1>3. ReplayContiguous /\ BatchInSync /\ EndMeansComplete /\ GapIsReal
        /\ NoLostWakeup
    BY DEF Init, ReplayContiguous, BatchInSync, EndMeansComplete, GapIsReal,
           NoLostWakeup, IsSegment, Connected
  <1> QED
    BY <1>1, <1>2, <1>3 DEF IInv

\* The inductive invariant holds in every reachable state.
THEOREM InvariantHolds == Spec => []IInv
  BY InitStep, NextStep, PTL DEF Spec

\* Every subscription yields an unbroken stretch of the published events, from
\* the one after the client's last on (MemoryStreamBridge.subscribe).
THEOREM ReplayIsContiguous == Spec => []ReplayContiguous
  BY InvariantHolds, PTL DEF IInv

\* END_SENTINEL is never early, a gap is never false, and nobody sleeps
\* through a publication.
THEOREM SentinelsAreHonest ==
  Spec => [](EndMeansComplete /\ GapIsReal /\ NoLostWakeup)
  BY InvariantHolds, PTL DEF IInv

\* The retained window is exact, so an offset computed from a cursor is right.
THEOREM WindowIsExact == Spec => [](TypeOK /\ WindowExact /\ BatchInSync)
  BY InvariantHolds, PTL DEF IInv

-----------------------------------------------------------------------------
\* A step that changes neither the log nor what any client has is invisible.
LEMMA InvisibleStep ==
  ASSUME NEW s \in Subscribers, TypeOK,
         UNCHANGED <<published, ended, asked, got>>,
         Connected(s),
         phase'[s] \in {"check", "wait", "deliver"},
         phase' = [phase EXCEPT ![s] = phase'[s]]
  PROVE  UNCHANGED Feed!vars
  <1>1. \A t \in Subscribers :
            /\ Connected(t)' <=> Connected(t)
            /\ ~Connected(t) => phase'[t] = phase[t]
    BY DEF TypeOK, Connected
  <1>2. feedState' = feedState
    BY <1>1 DEF feedState
  <1>3. feedNext' = feedNext /\ feedSeen' = feedSeen
    BY DEF feedNext, feedSeen, Position
  <1> QED
    BY <1>2, <1>3 DEF Feed!vars

\* Waking sleepers is invisible too.
LEMMA WakingIsInvisible ==
  ASSUME TypeOK, phase' = Notified(phase), UNCHANGED <<asked, got>>
  PROVE  UNCHANGED <<feedState, feedNext, feedSeen>>
  <1>1. \A t \in Subscribers :
            /\ Connected(t)' <=> Connected(t)
            /\ ~Connected(t) => phase'[t] = phase[t]
    BY DEF TypeOK, Connected, Notified
  <1>2. feedState' = feedState
    BY <1>1 DEF feedState
  <1> QED
    BY <1>2 DEF feedNext, feedSeen, Position

\* A subscriber that leaves "reading" for `to` changes only its feed state.
LEMMA LeavingReading ==
  ASSUME NEW s \in Subscribers, TypeOK,
         UNCHANGED <<asked, got>>,
         Connected(s),
         NEW to \in {"idle", "gap", "end"},
         phase' = [phase EXCEPT ![s] = to]
  PROVE  /\ feedState[s] = "reading"
         /\ feedState' = [feedState EXCEPT ![s] = to]
         /\ feedNext' = feedNext /\ feedSeen' = feedSeen
  <1>1. \A t \in Subscribers \ {s} :
            /\ Connected(t)' <=> Connected(t)
            /\ phase'[t] = phase[t]
    BY DEF TypeOK, Connected
  <1>2. phase'[s] = to /\ ~Connected(s)'
    BY DEF TypeOK, Connected
  <1>3. feedState' = [feedState EXCEPT ![s] = to]
    BY <1>1, <1>2 DEF feedState
  <1> QED
    BY <1>3 DEF feedState, feedNext, feedSeen, Position

\* Every step of the bridge is a step of the feed or leaves it alone.
LEMMA FeedStep ==
  ASSUME IInv, [Next]_vars
  PROVE  [Feed!Next]_(Feed!vars)
  <1> USE DEF Feed!Next
  <1>0. TypeOK
    BY DEF IInv
  <1>1. CASE UNCHANGED vars
    <2>1. UNCHANGED Feed!vars
      BY <1>1 DEF vars, Feed!vars, feedState, feedNext, feedSeen, Connected, Position
    <2> QED
      BY <2>1
  <1>2. ASSUME NEW d \in Payloads, Publish(d)
        PROVE  Feed!Extend
    BY <1>0, <1>2, WakingIsInvisible DEF Publish, Feed!Extend
  <1>3. CASE PublishEnd
    <2>1. Feed!Close
      BY <1>0, <1>3, WakingIsInvisible DEF PublishEnd, Feed!Close
    <2> QED
      BY <2>1
  <1>4. ASSUME NEW s \in Subscribers, NEW last \in -1..MaxEvents,
               Subscribe(s, last)
        PROVE  Feed!Open(s)
    <2>1. /\ phase' = [phase EXCEPT ![s] = "check"]
          /\ asked' = [asked EXCEPT ![s] = last]
          /\ got' = [got EXCEPT ![s] = <<>>]
          /\ ~Connected(s) /\ UNCHANGED streamVars
      BY <1>4 DEF Subscribe
    <2>2. feedState' = [feedState EXCEPT ![s] = "reading"]
          /\ feedState[s] # "reading"
      <3>1. \A t \in Subscribers \ {s} :
                (Connected(t)' <=> Connected(t)) /\ phase'[t] = phase[t]
        BY <2>1, <1>0 DEF TypeOK, Connected
      <3>2. Connected(s)'
        BY <2>1, <1>0 DEF TypeOK, Connected
      <3>3. phase[s] # "reading"
        BY <1>0 DEF TypeOK, Phases
      <3>4. feedState[s] # "reading"
        BY <2>1, <3>3 DEF feedState
      <3>5. feedState' = [feedState EXCEPT ![s] = "reading"]
        BY <3>1, <3>2 DEF feedState
      <3> QED
        BY <3>4, <3>5
    <2>3. last + 1 \in Nat
      BY ConstantsAssumption DEF ConstantsAssumption
    <2>4. /\ \A t \in Subscribers \ {s} : Position(t)' = Position(t)
          /\ Position(s)' = last + 1
      BY <2>1, <2>3, <1>0 DEF TypeOK, Position
    <2>5. /\ feedNext' = [feedNext EXCEPT ![s] = feedNext'[s]]
          /\ feedNext'[s] \in Nat
      BY <2>3, <2>4 DEF feedNext
    <2>6. feedSeen' = [feedSeen EXCEPT ![s] = <<>>]
      <3>1. feedSeen'[s] = <<>>
        <4>1. got'[s] = <<>>
          BY <2>1, <1>0 DEF TypeOK
        <4>2. feedSeen'[s] = [i \in 1..Len(got'[s]) |-> got'[s][i].data]
          BY DEF feedSeen
        <4>3. Len(got'[s]) = 0
          BY <4>1
        <4> HIDE <4>1
        <4>4. feedSeen'[s] \in Seq(Nat) /\ Len(feedSeen'[s]) = 0
          BY <4>2, <4>3
        <4> QED
          BY <4>4, EmptySeq
      <3>2. \A t \in Subscribers \ {s} : feedSeen'[t] = feedSeen[t]
        BY <2>1, <1>0 DEF feedSeen, TypeOK
      <3> QED
        BY <3>1, <3>2 DEF feedSeen
    <2> QED
      BY <2>1, <2>2, <2>5, <2>6 DEF Feed!Open, streamVars
  <1>5. ASSUME NEW s \in Subscribers, LookGap(s)
        PROVE  Feed!Lose(s)
    <2>1. IInv' /\ phase'[s] = "gap"
      BY <1>5, LookGapStep DEF LookGap, IInv, TypeOK
    <2>2. Position(s)' + Capacity < Len(published)
      BY <2>1, <1>5 DEF IInv, GapIsReal, LookGap, streamVars, Capacity
    <2>3. Position(s)' = Position(s)
      BY <1>5 DEF LookGap, Position
    <2>4. feedNext[s] + Capacity < Len(published)
      BY <2>2, <2>3 DEF feedNext
    <2> QED
      BY <2>4, <1>0, <1>5, LeavingReading DEF LookGap, Connected, Feed!Lose, streamVars
  <1>6. ASSUME NEW s \in Subscribers, LookEnd(s)
        PROVE  Feed!Finish(s)
    <2>1. IInv' /\ phase'[s] = "end"
      BY <1>6, LookEndStep DEF LookEnd, IInv, TypeOK
    <2>2. Position(s)' >= Len(published)
      BY <2>1, <1>6 DEF IInv, EndMeansComplete, LookEnd, streamVars
    <2>3. Position(s)' = Position(s)
      BY <1>6 DEF LookEnd, Position
    <2>4. feedNext[s] >= Len(published)
      BY <2>2, <2>3 DEF feedNext
    <2> QED
      BY <2>4, <1>0, <1>6, LeavingReading DEF LookEnd, Connected, Feed!Finish, streamVars
  <1>7. ASSUME NEW s \in Subscribers, Disconnect(s)
        PROVE  Feed!Leave(s)
    BY <1>0, <1>7, LeavingReading DEF Disconnect, Feed!Leave, streamVars
  <1>8. ASSUME NEW s \in Subscribers, LookDrain(s) \/ LookWait(s) \/ Heartbeat(s)
        PROVE  UNCHANGED Feed!vars
    <2>1. /\ Connected(s)
          /\ UNCHANGED <<published, ended, asked, got>>
          /\ phase'[s] \in {"check", "wait", "deliver"}
          /\ phase' = [phase EXCEPT ![s] = phase'[s]]
      BY <1>0, <1>8 DEF LookDrain, LookWait, Heartbeat, Connected, TypeOK, streamVars
    <2> QED
      BY <2>1, <1>0, InvisibleStep
  <1>9. ASSUME NEW s \in Subscribers, Deliver(s)
        PROVE  Feed!Receive(s)
    <2>1. /\ Connected(s) /\ phase[s] = "deliver"
          /\ UNCHANGED <<published, ended, asked>>
          /\ phase' = [phase EXCEPT ![s] = phase'[s]]
          /\ phase'[s] \in {"check", "deliver"}
          /\ got' = [got EXCEPT ![s] = Append(got[s], Head(pending[s]))]
          /\ got[s] \in Seq(Event) /\ pending[s] \in Seq(Event)
      BY <1>0, <1>9 DEF Deliver, Connected, TypeOK, streamVars
    <2>2. IInv' /\ SubscriberInv(s)
      BY <1>9, DeliverStep, SubscriberInvHolds
    <2>3. /\ Len(pending[s]) >= 1
          /\ Head(pending[s]) = pending[s][1] /\ Head(pending[s]) \in Event
      <3>1. pending[s] # <<>>
        BY <2>1, <2>2 DEF SubscriberInv
      <3> QED
        BY <3>1, <2>1, HeadTailProperties, EmptySeq, LenProperties
    <2>4. /\ Position(s) \in Nat /\ Position(s) < Len(published)
          /\ Head(pending[s]).data = published[Position(s) + 1]
      <3>1. IsSegment(pending[s], Position(s), published)
        BY <2>1, <2>2 DEF SubscriberInv
      <3>2. Position(s) \in Nat /\ Len(published) \in Nat
            /\ Len(pending[s]) \in Nat
        BY <1>0, <2>1, SubscriberTypes, LenProperties DEF TypeOK
      <3>3. pending[s][1] = [seq |-> Position(s) + 1 - 1,
                             data |-> published[Position(s) + 1]]
        BY <2>3, <3>1, <3>2 DEF IsSegment
      <3>4. Position(s) + Len(pending[s]) <= Len(published)
        BY <2>3, <3>1, <3>2 DEF IsSegment
      <3>5. Head(pending[s]).data = published[Position(s) + 1]
        BY <3>3, <2>3
      <3> QED
        BY <2>3, <3>2, <3>4, <3>5
    <2>5. /\ Len(got'[s]) = Len(got[s]) + 1 /\ Len(got[s]) \in Nat
          /\ \A i \in 1..Len(got[s]) : got'[s][i] = got[s][i]
          /\ got'[s][Len(got[s]) + 1] = Head(pending[s])
          /\ \A t \in Subscribers \ {s} : got'[t] = got[t]
      <3>1. got'[s] = Append(got[s], Head(pending[s]))
        BY <1>0, <2>1 DEF TypeOK
      <3> QED
        BY <1>0, <2>1, <2>3, <3>1, AppendProperties, LenProperties DEF TypeOK
    <2>6. feedNext' = [feedNext EXCEPT ![s] = feedNext[s] + 1]
      <3>1. Position(s)' = Position(s) + 1
        <4>1. asked[s] + 1 \in Nat /\ asked'[s] = asked[s] /\ asked[s] \in Int
          BY <2>1, <1>0, SubscriberTypes
        <4> QED
          BY <4>1, <2>5 DEF Position
      <3>2. \A t \in Subscribers \ {s} : Position(t)' = Position(t)
        BY <2>1, <2>5 DEF Position
      <3> QED
        BY <3>1, <3>2 DEF feedNext
    <2>7. feedSeen' = [feedSeen EXCEPT
                          ![s] = Append(feedSeen[s], published[Position(s) + 1])]
      <3>1. feedSeen'[s] = Append(feedSeen[s], published[Position(s) + 1])
        <4> DEFINE x == published[Position(s) + 1]
                   old == [i \in 1..Len(got[s]) |-> got[s][i].data]
                   new == [i \in 1..(Len(got[s]) + 1) |-> got'[s][i].data]
        <4>1. feedSeen[s] = old /\ feedSeen'[s] = new
          BY <2>5 DEF feedSeen
        <4>2. /\ old \in Seq({got[s][i].data : i \in 1..Len(got[s])} \union {x})
              /\ Len(old) = Len(got[s])
          BY <2>5
        <4>3. /\ DOMAIN Append(old, x) = 1..(Len(got[s]) + 1)
              /\ \A i \in 1..Len(got[s]) : Append(old, x)[i] = old[i]
              /\ Append(old, x)[Len(got[s]) + 1] = x
          BY <4>2, <2>5
        <4>4. \A i \in 1..(Len(got[s]) + 1) : new[i] = Append(old, x)[i]
          BY <4>3, <2>4, <2>5
        <4>5. new = Append(old, x)
          <5>1. Append(old, x) \in
                  Seq({got[s][i].data : i \in 1..Len(got[s])} \union {x})
            BY <4>2, AppendProperties
          <5>2. Append(old, x) = [i \in 1..(Len(got[s]) + 1) |-> Append(old, x)[i]]
            BY <4>3, <5>1
          <5> QED
            BY <5>2, <4>4
        <4> QED
          BY <4>1, <4>5
      <3>2. \A t \in Subscribers \ {s} : feedSeen'[t] = feedSeen[t]
        BY <2>5 DEF feedSeen
      <3> QED
        BY <3>1, <3>2 DEF feedSeen
    <2>8. feedState' = feedState /\ feedState[s] = "reading"
      <3>1. \A t \in Subscribers :
                /\ Connected(t)' <=> Connected(t)
                /\ ~Connected(t) => phase'[t] = phase[t]
        BY <1>0, <2>1 DEF TypeOK, Connected
      <3> QED
        BY <2>1, <3>1 DEF feedState
    <2>9. feedNext[s] = Position(s)
      BY DEF feedNext
    <2> QED
      BY <2>1, <2>4, <2>6, <2>7, <2>8, <2>9 DEF Feed!Receive
  <1>10. CASE Next
    <2>1. \/ \E d \in Payloads : Publish(d)
          \/ PublishEnd
          \/ \E s \in Subscribers :
              \/ \E last \in -1..MaxEvents : Subscribe(s, last)
              \/ LookGap(s) \/ LookEnd(s) \/ Deliver(s) \/ Disconnect(s)
              \/ LookDrain(s) \/ LookWait(s) \/ Heartbeat(s)
      BY <1>10 DEF Next
    <2> QED
      BY <2>1, <1>2, <1>3, <1>4, <1>5, <1>6, <1>7, <1>8, <1>9
  <1> QED
    BY <1>1, <1>10

\* The bridge implements the feed that StreamBridge.subscribe documents.
THEOREM ImplementsFeed == Spec => FeedSpec
  <1>1. Init => Feed!Init
    <2> SUFFICES ASSUME Init PROVE Feed!Init
      OBVIOUS
    <2>1. feedState = [s \in Subscribers |-> "idle"]
      BY DEF Init, feedState, Connected
    <2>2. feedNext = [s \in Subscribers |-> 0]
      BY DEF Init, feedNext, Position
    <2>3. feedSeen = [s \in Subscribers |-> <<>>]
      <3>1. ASSUME NEW s \in Subscribers
            PROVE  feedSeen[s] = <<>>
        <4>1. feedSeen[s] = [i \in 1..0 |-> got[s][i].data]
          BY DEF Init, feedSeen
        <4>2. feedSeen[s] \in Seq(Nat) /\ Len(feedSeen[s]) = 0
          BY <4>1
        <4> QED
          BY <4>2, EmptySeq
      <3> QED
        BY <3>1 DEF feedSeen
    <2> QED
      BY <2>1, <2>2, <2>3 DEF Init, Feed!Init
  <1>2. IInv /\ [Next]_vars => [Feed!Next]_(Feed!vars)
    BY FeedStep
  <1> QED
    BY <1>1, <1>2, InvariantHolds, PTL DEF Spec, FeedSpec, Feed!Spec
=============================================================================
