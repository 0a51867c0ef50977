-------------------------- MODULE AnswerRelayProofs --------------------------
(***************************************************************************)
(* Theorems of AnswerRelay: for any tasks, any number of calls and whole   *)
(* texts and any threshold, the client's bubbles hold one answer each, and *)
(* what a task has said is on the screen when it is announced as done.     *)
(***************************************************************************)
EXTENDS AnswerRelay, SequenceTheorems, TLAPS

Answer == [text : Nat, sent : Nat, finished : BOOLEAN]
Bubbles == [key : Keys, got : Nat, mixed : BOOLEAN]

-----------------------------------------------------------------------------
\* What is invariant about the relay and the client's bubbles, for answers `a` in a
\* queue `q`: nothing is twice in the queue, the active answer is first in it and
\* has the last bubble, an answer has a bubble once something of it was sent, none
\* behind the active one was, and what has left the queue is finished and sent.
In(q, k) == \E i \in 1..Len(q) : q[i] = k
Shown(k) == \E i \in 1..Len(bubbles) : bubbles[i].key = k

QueueInv(q) ==
    /\ \A i, j \in 1..Len(q) : q[i] = q[j] => i = j
    /\ active # None =>
        /\ Len(q) > 0 /\ q[1] = active
        /\ Len(bubbles) > 0 /\ bubbles[Len(bubbles)].key = active

BubblesInv(a) ==
    /\ \A i \in 1..Len(bubbles) :
        /\ ~bubbles[i].mixed
        /\ bubbles[i].got > 0 /\ bubbles[i].got = a[bubbles[i].key].sent
    /\ \A i, j \in 1..Len(bubbles) : bubbles[i].key = bubbles[j].key => i = j

AnswersInv(a, q) ==
    \A k \in Keys :
        /\ a[k].sent <= a[k].text
        /\ a[k].sent > 0 => Shown(k)
        /\ In(q, k) => a[k].text > 0 /\ (k # active => a[k].sent = 0)
        /\ ~In(q, k) => (a[k].text > 0 => a[k].finished)
        /\ ~In(q, k) /\ k \notin again => a[k].sent = a[k].text

Relayed(a, q) == QueueInv(q) /\ BubblesInv(a) /\ AnswersInv(a, q)

\* A key that has not been used has no answer yet.
FreshInv ==
    /\ \A t \in Tasks, i \in 1..MaxCalls :
        i > calls[t] => answers[<<t, <<"call", i>>>>] = Silence
    /\ \A t \in Tasks, i \in 1..MaxWholes :
        i > wholes => answers[<<t, <<"whole", i>>>>] = Silence

\* The relay has whatever was spoken, and closes no answer that its first call may
\* still go on with.
SpeakingInv ==
    /\ \A k \in Keys : spoken[k] = answers[k].text
    /\ \A t \in Tasks : branch[t] = "calling" => calls[t] > 0
    /\ \A t \in Tasks :
        Calling(t) /\ Call(t) \notin again \union suppressed => ~answers[Call(t)].finished

\* A task that is announced is at rest and has nothing in the queue.
AnnouncedInv ==
    /\ \A t \in taskDone : branch[t] = "off"
    /\ \A i \in 1..Len(queue) : queue[i][1] \notin taskDone
    /\ run \in {"settling", "done"} => queue = <<>>

IInv == TypeOK /\ Relayed(answers, queue) /\ FreshInv /\ SpeakingInv /\ AnnouncedInv

-----------------------------------------------------------------------------
(* The client *)

LEMMA Joined ==
  ASSUME NEW S, NEW s \in Seq(S), NEW t \in Seq(S)
  PROVE  /\ s \o t \in Seq(S) /\ Len(s \o t) = Len(s) + Len(t)
         /\ \A i \in 1..Len(s) : (s \o t)[i] = s[i]
         /\ \A i \in 1..Len(t) : (s \o t)[Len(s) + i] = t[i]
<1>1. Len(s) \in Nat /\ Len(t) \in Nat
  OBVIOUS
<1>2. /\ s \o t \in Seq(S) /\ Len(s \o t) = Len(s) + Len(t)
      /\ \A i \in 1..Len(s) + Len(t) :
           (s \o t)[i] = IF i <= Len(s) THEN s[i] ELSE t[i - Len(s)]
  BY ConcatProperties
<1> QED BY <1>1, <1>2

\* The pieces of one answer the active bubble gets; it stays that answer's bubble.
LEMMA AppendedFacts ==
  ASSUME bubbles \in Seq(Bubbles), Len(bubbles) > 0, NEW k, NEW n \in Nat,
         bubbles[Len(bubbles)].key = k, ~bubbles[Len(bubbles)].mixed
  PROVE  /\ Appended(k, n) \in Seq(Bubbles) /\ Len(Appended(k, n)) = Len(bubbles)
         /\ \A i \in 1..Len(bubbles) :
              /\ Appended(k, n)[i].key = bubbles[i].key
              /\ Appended(k, n)[i].got = IF i = Len(bubbles) THEN bubbles[i].got + n
                                         ELSE bubbles[i].got
              /\ ~bubbles[i].mixed => ~Appended(k, n)[i].mixed
<1> DEFINE last == Len(bubbles)
           b == bubbles[last]
           e == [key |-> b.key, got |-> b.got + n, mixed |-> b.mixed \/ b.key # k]
<1>1. last \in 1..Len(bubbles) /\ b \in Bubbles
  BY ElementOfSeq
<1>2. e \in Bubbles /\ e.key = b.key /\ e.got = b.got + n /\ ~e.mixed
  BY <1>1 DEF Bubbles
<1>3. Appended(k, n) = [bubbles EXCEPT ![last] = e]
  BY DEF Appended
<1> HIDE DEF e
<1>4. /\ Appended(k, n) \in Seq(Bubbles) /\ Len(Appended(k, n)) = Len(bubbles)
      /\ \A i \in 1..Len(bubbles) : Appended(k, n)[i] = IF i = last THEN e ELSE bubbles[i]
  BY <1>1, <1>2, <1>3, ExceptSeq
<1> QED BY <1>2, <1>4

\* The answers that start, one bubble each.
LEMMA StartedFacts ==
  ASSUME NEW a \in [Keys -> Answer], NEW fresh \in Seq(Keys)
  PROVE  LET s == [i \in 1..Len(fresh) |->
                      Bubble(fresh[i], a[fresh[i]].text - a[fresh[i]].sent)]
         IN  (\A i \in 1..Len(fresh) : a[fresh[i]].sent <= a[fresh[i]].text) =>
                /\ s \in Seq(Bubbles) /\ Len(s) = Len(fresh)
                /\ \A i \in 1..Len(fresh) :
                     s[i] = Bubble(fresh[i], a[fresh[i]].text - a[fresh[i]].sent)
<1> DEFINE s == [i \in 1..Len(fresh) |->
                    Bubble(fresh[i], a[fresh[i]].text - a[fresh[i]].sent)]
<1> SUFFICES ASSUME \A i \in 1..Len(fresh) : a[fresh[i]].sent <= a[fresh[i]].text
             PROVE  /\ s \in Seq(Bubbles) /\ Len(s) = Len(fresh)
                    /\ \A i \in 1..Len(fresh) :
                         s[i] = Bubble(fresh[i], a[fresh[i]].text - a[fresh[i]].sent)
  OBVIOUS
<1>1. \A i \in 1..Len(fresh) :
        Bubble(fresh[i], a[fresh[i]].text - a[fresh[i]].sent) \in Bubbles
  <2> SUFFICES ASSUME NEW i \in 1..Len(fresh)
               PROVE  Bubble(fresh[i], a[fresh[i]].text - a[fresh[i]].sent) \in Bubbles
    OBVIOUS
  <2>1. fresh[i] \in Keys /\ a[fresh[i]] \in Answer
    BY ElementOfSeq
  <2> QED BY <2>1 DEF Bubble, Bubbles, Answer
<1>2. Len(fresh) \in Nat
  OBVIOUS
<1>3. s \in [1..Len(fresh) -> Bubbles]
  BY <1>1
<1>4. s \in Seq(Bubbles) /\ Len(s) = Len(fresh)
  BY <1>2, <1>3
<1> QED BY <1>4

\* What the client has after the events for the answers at the front of the queue:
\* `d` of them go on, the others start.
ReceivedIs(a, out, d, r) ==
    /\ r \in Seq(Bubbles) /\ Len(r) = Len(bubbles) + (Len(out) - d)
    /\ \A i \in 1..Len(bubbles) :
        /\ r[i].key = bubbles[i].key /\ ~r[i].mixed
        /\ r[i].got = IF bubbles[i].key = active THEN a[active].text ELSE bubbles[i].got
    /\ \A i \in 1..(Len(out) - d) : r[Len(bubbles) + i] = Bubble(out[d + i], a[out[d + i]].text)

LEMMA ReceivedFacts ==
  ASSUME NEW a \in [Keys -> Answer], NEW q \in Seq(Keys), Relayed(a, q),
         bubbles \in Seq(Bubbles), active \in Keys \union {None},
         NEW out \in Seq(Keys), Len(out) <= Len(q), \A i \in 1..Len(out) : out[i] = q[i],
         active # None => Len(out) > 0,
         NEW d, d = IF active = None THEN 0 ELSE 1
  PROVE  ReceivedIs(a, out, d, Received(a, out))
<1> DEFINE goesOn == out # <<>> /\ active = out[1]
           fresh == IF goesOn THEN Tail(out) ELSE out
           old == IF goesOn THEN Appended(out[1], a[out[1]].text - a[out[1]].sent) ELSE bubbles
           new == [i \in 1..Len(fresh) |-> Bubble(fresh[i], a[fresh[i]].text - a[fresh[i]].sent)]
<1>1. Received(a, out) = old \o new
  BY DEF Received
<1>2. Len(out) \in Nat /\ Len(bubbles) \in Nat /\ Len(q) \in Nat /\ None \notin Keys
  BY NoneAssumption
<1>3. goesOn <=> active # None
  <2>1. CASE active # None
    <3>1. Len(out) > 0 /\ out[1] = q[1] /\ q[1] = active
      BY <1>2, <2>1 DEF Relayed, QueueInv
    <3> QED BY <2>1, <3>1
  <2>2. CASE active = None
    <3>1. out # <<>> => out[1] \in Keys
      BY ElementOfSeq
    <3> QED BY <1>2, <2>2, <3>1
  <2> QED BY <2>1, <2>2
<1>4. /\ fresh \in Seq(Keys) /\ Len(fresh) = Len(out) - d
      /\ \A i \in 1..Len(fresh) : fresh[i] = out[d + i]
  <2>1. CASE goesOn
    <3>1. out # <<>> /\ d = 1 /\ fresh = Tail(out)
      BY <1>3, <2>1
    <3>2. /\ Tail(out) \in Seq(Keys) /\ Len(Tail(out)) = Len(out) - 1
          /\ \A i \in 1..Len(Tail(out)) : Tail(out)[i] = out[i + 1]
      BY <3>1, HeadTailProperties
    <3> HIDE DEF fresh
    <3>3. \A i \in 1..Len(fresh) : fresh[i] = out[1 + i]
      BY <3>1, <3>2
    <3> QED BY <3>1, <3>2, <3>3
  <2>2. CASE ~goesOn
    <3>1. fresh = out /\ d = 0
      BY <1>3, <2>2
    <3> HIDE DEF fresh, goesOn
    <3>2. \A i \in 1..Len(fresh) : d + i = i
      BY <3>1
    <3> QED BY <1>2, <3>1, <3>2
  <2> QED BY <2>1, <2>2
<1> HIDE DEF fresh
<1>5. \A i \in 1..Len(fresh) :
        /\ fresh[i] \in Keys /\ a[fresh[i]] \in Answer
        /\ a[fresh[i]].sent = 0 /\ a[fresh[i]].text > 0
  <2> SUFFICES ASSUME NEW i \in 1..Len(fresh)
               PROVE  /\ fresh[i] \in Keys /\ a[fresh[i]] \in Answer
                      /\ a[fresh[i]].sent = 0 /\ a[fresh[i]].text > 0
    OBVIOUS
  <2>1. fresh[i] = q[d + i] /\ d + i \in 1..Len(q) /\ fresh[i] \in Keys
    BY <1>2, <1>4
  <2>2. active # None => fresh[i] # active
    <3>1. active # None => d + i # 1 /\ 1 \in 1..Len(q) /\ q[1] = active
      BY <1>2, <2>1 DEF Relayed, QueueInv
    <3> QED BY <2>1, <3>1 DEF Relayed, QueueInv
  <2>3. fresh[i] # active
    BY <1>2, <2>1, <2>2
  <2>4. In(q, fresh[i])
    BY <2>1 DEF In
  <2> QED BY <2>1, <2>3, <2>4 DEF Relayed, AnswersInv
<1>6. /\ new \in Seq(Bubbles) /\ Len(new) = Len(fresh)
      /\ \A i \in 1..Len(fresh) : new[i] = Bubble(fresh[i], a[fresh[i]].text)
  <2>1. \A i \in 1..Len(fresh) : a[fresh[i]].sent <= a[fresh[i]].text
    BY <1>5 DEF Answer
  <2>2. \A i \in 1..Len(fresh) : a[fresh[i]].text - a[fresh[i]].sent = a[fresh[i]].text
    BY <1>5 DEF Answer
  <2> HIDE DEF new
  <2>3. /\ new \in Seq(Bubbles) /\ Len(new) = Len(fresh)
        /\ \A i \in 1..Len(fresh) :
             new[i] = Bubble(fresh[i], a[fresh[i]].text - a[fresh[i]].sent)
    BY <1>4, <2>1, StartedFacts DEF new
  <2> QED BY <2>2, <2>3
<1> HIDE DEF new
<1>7. /\ old \in Seq(Bubbles) /\ Len(old) = Len(bubbles)
      /\ \A i \in 1..Len(bubbles) :
           /\ old[i].key = bubbles[i].key /\ ~old[i].mixed
           /\ old[i].got = IF bubbles[i].key = active THEN a[active].text ELSE bubbles[i].got
  <2>1. \A i \in 1..Len(bubbles) :
          /\ ~bubbles[i].mixed /\ bubbles[i].key \in Keys
          /\ bubbles[i].got = a[bubbles[i].key].sent
    <3>1. \A i \in 1..Len(bubbles) : bubbles[i] \in Bubbles
      OBVIOUS
    <3>2. \A i \in 1..Len(bubbles) : bubbles[i].key \in Keys
      BY <3>1 DEF Bubbles
    <3> QED BY <3>2 DEF Relayed, BubblesInv
  <2>2. CASE active # None
    <3>1. /\ Len(bubbles) > 0 /\ bubbles[Len(bubbles)].key = active
          /\ goesOn /\ out[1] = active
      BY <1>3, <2>2 DEF Relayed, QueueInv
    <3>2. a[active] \in Answer /\ a[active].sent <= a[active].text
      BY <2>2 DEF Relayed, AnswersInv
    <3>3. a[active].text - a[active].sent \in Nat
      BY <3>2 DEF Answer
    <3>4. \A i \in 1..Len(bubbles) : bubbles[i].key = active => i = Len(bubbles)
      BY <1>2, <3>1 DEF Relayed, BubblesInv
    <3> DEFINE n == a[active].text - a[active].sent
    <3>5. old = Appended(active, n)
      BY <3>1
    <3>6. /\ Appended(active, n) \in Seq(Bubbles) /\ Len(Appended(active, n)) = Len(bubbles)
          /\ \A i \in 1..Len(bubbles) :
               /\ Appended(active, n)[i].key = bubbles[i].key
               /\ Appended(active, n)[i].got = IF i = Len(bubbles) THEN bubbles[i].got + n
                                               ELSE bubbles[i].got
               /\ ~bubbles[i].mixed => ~Appended(active, n)[i].mixed
      <4>1. ~bubbles[Len(bubbles)].mixed
        BY <1>2, <2>1, <3>1
      <4> QED BY <3>1, <3>3, <4>1, AppendedFacts
    <3>7. bubbles[Len(bubbles)].got + n = a[active].text
      <4>1. bubbles[Len(bubbles)].got = a[active].sent
        BY <1>2, <2>1, <3>1
      <4> QED BY <3>2, <4>1 DEF Answer
    <3> HIDE DEF n, old
    <3> QED BY <2>1, <3>1, <3>4, <3>5, <3>6, <3>7
  <2>3. CASE active = None
    BY <1>2, <1>3, <2>1, <2>3
  <2> QED BY <2>2, <2>3
<1> HIDE DEF old
<1>8. /\ old \o new \in Seq(Bubbles) /\ Len(old \o new) = Len(old) + Len(new)
      /\ \A i \in 1..Len(old) : (old \o new)[i] = old[i]
      /\ \A i \in 1..Len(new) : (old \o new)[Len(old) + i] = new[i]
  <2>1. old \in Seq(Bubbles) /\ new \in Seq(Bubbles)
    BY <1>6, <1>7
  <2> QED BY ONLY <2>1, Joined
<1>9. PICK r : r = Received(a, out)
  OBVIOUS
<1>10. /\ r \in Seq(Bubbles) /\ Len(r) = Len(bubbles) + (Len(out) - d)
       /\ \A i \in 1..Len(bubbles) : r[i] = old[i]
  BY <1>1, <1>4, <1>6, <1>7, <1>8, <1>9
<1>11. \A i \in 1..(Len(out) - d) : r[Len(bubbles) + i] = Bubble(out[d + i], a[out[d + i]].text)
  BY <1>1, <1>4, <1>6, <1>7, <1>8, <1>9
<1>12. ReceivedIs(a, out, d, r)
  BY <1>7, <1>10, <1>11 DEF ReceivedIs
<1> QED BY <1>9, <1>12

-----------------------------------------------------------------------------
(* _advance *)

\* What one run of the loop does: `n` answers leave the queue, `m` are sent, and `d`
\* of these had their bubble already.
Advanced(a, q, n, m, d) ==
    /\ n <= m /\ m <= n + 1 /\ m <= Len(q) /\ d <= m
    /\ d = IF active = None THEN 0 ELSE 1
    /\ \A i \in 1..n : a[q[i]].finished
    /\ n < Len(q) => ~a[q[n + 1]].finished
    /\ active' = IF n < m THEN q[m] ELSE None
    /\ queue' \in Seq(Keys) /\ Len(queue') = Len(q) - n
    /\ \A i \in 1..(Len(q) - n) : queue'[i] = q[n + i]
    /\ answers' \in [Keys -> Answer]
    /\ \A k \in Keys :
        /\ answers'[k].text = a[k].text /\ answers'[k].finished = a[k].finished
        /\ (\E i \in 1..m : q[i] = k) => answers'[k].sent = a[k].text
        /\ ~(\E i \in 1..m : q[i] = k) => answers'[k].sent = a[k].sent
    /\ bubbles' \in Seq(Bubbles) /\ Len(bubbles') = Len(bubbles) + (m - d)
    /\ \A i \in 1..Len(bubbles) :
        /\ bubbles'[i].key = bubbles[i].key /\ ~bubbles'[i].mixed
        /\ bubbles'[i].got = IF bubbles[i].key = active THEN a[active].text ELSE bubbles[i].got
    /\ \A i \in 1..(m - d) :
        /\ bubbles'[Len(bubbles) + i].key = q[d + i] /\ ~bubbles'[Len(bubbles) + i].mixed
        /\ bubbles'[Len(bubbles) + i].got = a[q[d + i]].text

LEMMA Part ==
  ASSUME NEW S, NEW s \in Seq(S), NEW i \in 1..(Len(s) + 1), NEW j \in 0..Len(s), i <= j + 1
  PROVE  /\ SubSeq(s, i, j) \in Seq(S) /\ Len(SubSeq(s, i, j)) = j - i + 1
         /\ \A k \in 1..(j - i + 1) : SubSeq(s, i, j)[k] = s[i + k - 1]
  BY SubSeqProperties

LEMMA AdvanceShape ==
  ASSUME NEW a \in [Keys -> Answer], NEW q \in Seq(Keys), Relayed(a, q),
         bubbles \in Seq(Bubbles), active \in Keys \union {None},
         Advance(a, q)
  PROVE  \E n, m, d \in 0..(Len(q) + 1) : Advanced(a, q, n, m, d)
<1>1. Len(q) \in Nat /\ Len(bubbles) \in Nat /\ None \notin Keys
  BY NoneAssumption
<1>2. PICK n \in 0..Len(q) :
        LET next == n < Len(q) /\ (active = q[n + 1] \/ a[q[n + 1]].text >= Hold)
            out == SubSeq(q, 1, IF next THEN n + 1 ELSE n)
        IN  /\ \A i \in 1..n : a[q[i]].finished
            /\ n < Len(q) => ~a[q[n + 1]].finished
            /\ queue' = SubSeq(q, n + 1, Len(q))
            /\ active' = IF next THEN q[n + 1] ELSE None
            /\ answers' = [k \in Keys |-> IF \E i \in 1..Len(out) : out[i] = k
                                          THEN [a[k] EXCEPT !.sent = a[k].text]
                                          ELSE a[k]]
            /\ bubbles' = Received(a, out)
  BY DEF Advance
<1>3. PICK next \in BOOLEAN :
        next <=> n < Len(q) /\ (active = q[n + 1] \/ a[q[n + 1]].text >= Hold)
  OBVIOUS
<1>4. PICK m \in 0..Len(q) : m = IF next THEN n + 1 ELSE n
  <2>1. n + 1 <= Len(q) \/ ~next
    BY <1>1, <1>3
  <2> QED BY <1>1, <2>1
<1>5. PICK d \in {0, 1} : d = IF active = None THEN 0 ELSE 1
  OBVIOUS
<1>6. PICK out : out = SubSeq(q, 1, m)
  OBVIOUS
<1>7. /\ \A i \in 1..n : a[q[i]].finished
      /\ n < Len(q) => ~a[q[n + 1]].finished
      /\ queue' = SubSeq(q, n + 1, Len(q))
      /\ active' = IF next THEN q[n + 1] ELSE None
      /\ answers' = [k \in Keys |-> IF \E i \in 1..Len(out) : out[i] = k
                                    THEN [a[k] EXCEPT !.sent = a[k].text]
                                    ELSE a[k]]
      /\ bubbles' = Received(a, out)
  BY <1>2, <1>3, <1>4, <1>6
<1>8. /\ out \in Seq(Keys) /\ Len(out) = m
      /\ \A i \in 1..m : out[i] = q[i]
  <2>1. /\ SubSeq(q, 1, m) \in Seq(Keys) /\ Len(SubSeq(q, 1, m)) = m - 1 + 1
        /\ \A k \in 1..(m - 1 + 1) : SubSeq(q, 1, m)[k] = q[1 + k - 1]
    BY <1>1, Part
  <2>2. m - 1 + 1 = m /\ \A k \in 1..m : 1 + k - 1 = k
    OBVIOUS
  <2> QED BY <1>6, <2>1, <2>2
<1>9. /\ queue' \in Seq(Keys) /\ Len(queue') = Len(q) - n
      /\ \A i \in 1..(Len(q) - n) : queue'[i] = q[n + i]
  <2>1. /\ SubSeq(q, n + 1, Len(q)) \in Seq(Keys)
        /\ Len(SubSeq(q, n + 1, Len(q))) = Len(q) - (n + 1) + 1
        /\ \A k \in 1..(Len(q) - (n + 1) + 1) :
             SubSeq(q, n + 1, Len(q))[k] = q[n + 1 + k - 1]
    BY <1>1, Part
  <2>2. Len(q) - (n + 1) + 1 = Len(q) - n /\ \A k \in 1..(Len(q) - n) : n + 1 + k - 1 = n + k
    BY <1>1
  <2> QED BY <1>7, <2>1, <2>2
<1>10. active # None => m > 0
  <2> SUFFICES ASSUME active # None PROVE m > 0
    OBVIOUS
  <2>1. Len(q) > 0 /\ q[1] = active
    BY DEF Relayed, QueueInv
  <2>2. n = 0 => q[n + 1] = active
    BY <2>1
  <2> QED BY <1>1, <1>3, <1>4, <2>1, <2>2
<1>11. /\ answers' \in [Keys -> Answer]
       /\ \A k \in Keys :
            /\ answers'[k].text = a[k].text /\ answers'[k].finished = a[k].finished
            /\ (\E i \in 1..m : q[i] = k) => answers'[k].sent = a[k].text
            /\ ~(\E i \in 1..m : q[i] = k) => answers'[k].sent = a[k].sent
  <2>1. \A k \in Keys : (\E i \in 1..Len(out) : out[i] = k) <=> \E i \in 1..m : q[i] = k
    BY <1>8
  <2>2. \A k \in Keys :
          answers'[k] = IF \E i \in 1..m : q[i] = k
                        THEN [a[k] EXCEPT !.sent = a[k].text] ELSE a[k]
    BY <1>7, <2>1
  <2>3. \A k \in Keys : a[k] \in Answer /\ [a[k] EXCEPT !.sent = a[k].text] \in Answer
    BY DEF Answer
  <2>4. \A k \in Keys : answers'[k] \in Answer
    BY <2>2, <2>3
  <2>5. answers' = [k \in Keys |-> answers'[k]]
    BY <1>7
  <2>6. answers' \in [Keys -> Answer]
    BY <2>4, <2>5
  <2>7. \A k \in Keys :
          /\ answers'[k].text = a[k].text /\ answers'[k].finished = a[k].finished
          /\ (\E i \in 1..m : q[i] = k) => answers'[k].sent = a[k].text
          /\ ~(\E i \in 1..m : q[i] = k) => answers'[k].sent = a[k].sent
    BY <2>2, <2>3 DEF Answer
  <2> QED BY <2>6, <2>7
<1>12. ReceivedIs(a, out, d, bubbles')
  <2>1. Len(out) <= Len(q) /\ (active # None => Len(out) > 0)
    BY <1>1, <1>8, <1>10
  <2>2. \A i \in 1..Len(out) : out[i] = q[i]
    BY <1>8
  <2>3. out \in Seq(Keys)
    BY <1>8
  <2>4. ReceivedIs(a, out, d, Received(a, out))
    BY <1>5, <2>1, <2>2, <2>3, ReceivedFacts
  <2> QED BY <1>7, <2>4
<1>13. \A i \in 1..(m - d) : out[d + i] = q[d + i]
  BY <1>5, <1>8
<1>14. \A i \in 1..(m - d) :
         /\ bubbles'[Len(bubbles) + i].key = q[d + i] /\ ~bubbles'[Len(bubbles) + i].mixed
         /\ bubbles'[Len(bubbles) + i].got = a[q[d + i]].text
  <2>1. \A i \in 1..(m - d) : bubbles'[Len(bubbles) + i] = Bubble(out[d + i], a[out[d + i]].text)
    BY <1>8, <1>12 DEF ReceivedIs
  <2>2. \A i \in 1..(m - d) : bubbles'[Len(bubbles) + i] = Bubble(q[d + i], a[q[d + i]].text)
    BY <1>13, <2>1
  <2>3. \A k, v : Bubble(k, v).key = k /\ Bubble(k, v).got = v /\ ~Bubble(k, v).mixed
    BY DEF Bubble
  <2> QED BY <2>2, <2>3
<1>15. active' = IF n < m THEN q[m] ELSE None
  BY <1>4, <1>7
<1>16. n <= m /\ m <= n + 1 /\ m <= Len(q) /\ d <= m
  BY <1>1, <1>4, <1>5, <1>10
<1>17. bubbles' \in Seq(Bubbles) /\ Len(bubbles') = Len(bubbles) + (m - d)
  BY <1>8, <1>12 DEF ReceivedIs
<1>18. \A i \in 1..Len(bubbles) :
         /\ bubbles'[i].key = bubbles[i].key /\ ~bubbles'[i].mixed
         /\ bubbles'[i].got = IF bubbles[i].key = active THEN a[active].text ELSE bubbles[i].got
  BY <1>12 DEF ReceivedIs
<1>19. Advanced(a, q, n, m, d)
  BY <1>5, <1>7, <1>9, <1>11, <1>14, <1>15, <1>16, <1>17, <1>18 DEF Advanced
<1>20. n \in 0..(Len(q) + 1) /\ m \in 0..(Len(q) + 1) /\ d \in 0..(Len(q) + 1)
  BY <1>1, <1>16
<1> QED BY <1>19, <1>20

\* The loop keeps what is invariant about the relay and the bubbles, changes no text,
\* touches no answer outside the queue, and empties a queue of finished answers.
Kept(a, q) ==
    /\ Relayed(answers, queue)'
    /\ answers' \in [Keys -> Answer] /\ queue' \in Seq(Keys)
    /\ bubbles' \in Seq(Bubbles) /\ active' \in Keys \union {None}
    /\ \A k \in Keys :
        /\ answers'[k].text = a[k].text /\ answers'[k].finished = a[k].finished
        /\ ~In(q, k) => answers'[k].sent = a[k].sent
        /\ In(queue', k) => In(q, k)
    /\ (\A i \in 1..Len(q) : a[q[i]].finished) => queue' = <<>>

LEMMA AdvancedKeeps ==
  ASSUME NEW a \in [Keys -> Answer], NEW q \in Seq(Keys), Relayed(a, q),
         bubbles \in Seq(Bubbles), active \in Keys \union {None},
         NEW n \in Nat, NEW m \in Nat, NEW d \in Nat, Advanced(a, q, n, m, d),
         again' = again
  PROVE  Kept(a, q)
<1>1. /\ Len(q) \in Nat /\ Len(bubbles) \in Nat /\ Len(bubbles') \in Nat
      /\ None \notin Keys
      /\ \A i \in 1..Len(q) : q[i] \in Keys
  BY NoneAssumption DEF Advanced
<1>2. \A k \in Keys : a[k] \in Answer /\ a[k].text \in Nat /\ a[k].sent \in Nat
  BY DEF Answer
<1>3. /\ n <= m /\ m <= n + 1 /\ m <= Len(q) /\ d <= m
      /\ d = IF active = None THEN 0 ELSE 1
  BY DEF Advanced
<1>4. \A i, j \in 1..Len(q) : q[i] = q[j] => i = j
  BY DEF Relayed, QueueInv
<1>5. active # None => Len(q) > 0 /\ q[1] = active /\ m >= 1
  BY <1>3 DEF Relayed, QueueInv
<1>6. \A i \in 1..Len(q) : In(q, q[i])
  BY DEF In
<1>7. \A i \in 1..Len(q) :
        /\ a[q[i]].text > 0 /\ (q[i] # active => a[q[i]].sent = 0)
  BY <1>1, <1>6 DEF Relayed, AnswersInv
<1>8. \A i \in 1..(Len(q) - n) : queue'[i] = q[n + i] /\ n + i \in 1..Len(q)
  BY <1>1, <1>3 DEF Advanced
<1>9. Len(queue') = Len(q) - n
  BY DEF Advanced
<1>10. \A i \in 1..m : i \in 1..Len(q) /\ answers'[q[i]].sent = a[q[i]].text
  BY <1>1, <1>3 DEF Advanced
<1>11. \A i \in 1..Len(q) : i > m => answers'[q[i]].sent = a[q[i]].sent
  <2> SUFFICES ASSUME NEW i \in 1..Len(q), i > m PROVE answers'[q[i]].sent = a[q[i]].sent
    OBVIOUS
  <2>1. ~(\E j \in 1..m : q[j] = q[i])
    BY <1>4, <1>10
  <2> QED BY <1>1, <2>1 DEF Advanced
<1>12. \A k \in Keys : ~In(q, k) => answers'[k].sent = a[k].sent
  <2> SUFFICES ASSUME NEW k \in Keys, ~In(q, k) PROVE answers'[k].sent = a[k].sent
    OBVIOUS
  <2>1. ~(\E j \in 1..m : q[j] = k)
    BY <1>10 DEF In
  <2> QED BY <2>1 DEF Advanced
<1>13. \A k \in Keys : In(q, k) => \E i \in 1..Len(q) : q[i] = k
  BY DEF In
<1>14. \A k : In(queue', k) <=> \E i \in 1..(Len(q) - n) : q[n + i] = k
  BY <1>8, <1>9 DEF In
<1>15. active' = IF n < m THEN q[m] ELSE None
  BY DEF Advanced
<1>16. active \in Keys => n < m \/ n >= 1
  BY <1>3, <1>5, <1>1
<1>20. QueueInv(queue)'
  <2>1. \A i, j \in 1..Len(queue') : queue'[i] = queue'[j] => i = j
    <3> SUFFICES ASSUME NEW i \in 1..Len(queue'), NEW j \in 1..Len(queue'),
                        queue'[i] = queue'[j]
                 PROVE  i = j
      OBVIOUS
    <3>1. i \in 1..(Len(q) - n) /\ j \in 1..(Len(q) - n)
      BY <1>9
    <3>2. q[n + i] = q[n + j] /\ n + i \in 1..Len(q) /\ n + j \in 1..Len(q)
      BY <1>8, <3>1
    <3>3. n + i = n + j
      BY <1>4, <3>2
    <3> QED BY <3>1, <3>3
  <2>2. ASSUME active' # None
        PROVE  /\ Len(queue') > 0 /\ queue'[1] = active'
               /\ Len(bubbles') > 0 /\ bubbles'[Len(bubbles')].key = active'
    <3>1. n < m /\ m = n + 1 /\ active' = q[m]
      BY <1>3, <1>15, <2>2
    <3>2. Len(queue') > 0 /\ queue'[1] = active'
      BY <1>1, <1>3, <1>8, <1>9, <3>1
    <3>3. Len(bubbles') = Len(bubbles) + (m - d)
      BY DEF Advanced
    <3>4. CASE m = d
      <4>1. d = 1 /\ m = 1 /\ active # None
        BY <1>3, <3>1, <3>4
      <4>2. Len(bubbles) > 0 /\ bubbles[Len(bubbles)].key = active
        BY <4>1 DEF Relayed, QueueInv
      <4>3. bubbles'[Len(bubbles)].key = bubbles[Len(bubbles)].key
        <5>1. Len(bubbles) \in 1..Len(bubbles)
          BY <1>1, <4>2
        <5>2. \A i \in 1..Len(bubbles) : bubbles'[i].key = bubbles[i].key
          BY DEF Advanced
        <5> QED BY <5>1, <5>2
      <4>4. Len(bubbles') = Len(bubbles)
        BY <1>1, <3>3, <4>1
      <4>5. active' = active
        BY <1>5, <3>1, <4>1
      <4> QED BY <3>2, <4>2, <4>3, <4>4, <4>5
    <3>5. CASE m # d
      <4>1. m - d \in 1..(m - d) /\ d + (m - d) = m
        BY <1>3, <3>5
      <4>2. bubbles'[Len(bubbles) + (m - d)].key = q[d + (m - d)]
        BY <4>1 DEF Advanced
      <4>3. Len(bubbles') > 0
        BY <1>1, <3>3, <4>1
      <4> QED BY <3>1, <3>2, <3>3, <4>1, <4>2, <4>3
    <3> QED BY <3>4, <3>5
  <2> QED BY <2>1, <2>2 DEF QueueInv
<1>21. \A i \in 1..Len(bubbles) :
         /\ bubbles[i].key \in Keys /\ bubbles[i].got > 0
         /\ bubbles[i].got = a[bubbles[i].key].sent
  <2>1. \A i \in 1..Len(bubbles) : bubbles[i] \in Bubbles
    OBVIOUS
  <2>2. \A i \in 1..Len(bubbles) : bubbles[i].key \in Keys
    BY <2>1 DEF Bubbles
  <2> QED BY <2>2 DEF Relayed, BubblesInv
<1>22. \A i \in 1..Len(bubbles) :
         /\ bubbles'[i].key = bubbles[i].key /\ ~bubbles'[i].mixed
         /\ bubbles'[i].got > 0 /\ bubbles'[i].got = answers'[bubbles[i].key].sent
  <2> SUFFICES ASSUME NEW i \in 1..Len(bubbles)
               PROVE  /\ bubbles'[i].key = bubbles[i].key /\ ~bubbles'[i].mixed
                      /\ bubbles'[i].got > 0
                      /\ bubbles'[i].got = answers'[bubbles[i].key].sent
    OBVIOUS
  <2>1. /\ bubbles'[i].key = bubbles[i].key /\ ~bubbles'[i].mixed
        /\ bubbles'[i].got = IF bubbles[i].key = active THEN a[active].text ELSE bubbles[i].got
    BY DEF Advanced
  <2>2. CASE bubbles[i].key = active
    <3>1. active # None /\ 1 \in 1..m /\ 1 \in 1..Len(q) /\ q[1] = active
      BY <1>1, <1>3, <1>5, <1>21, <2>2
    <3>2. a[active].text > 0 /\ answers'[active].sent = a[active].text
      BY <1>7, <1>10, <3>1
    <3> QED BY <2>1, <2>2, <3>2
  <2>3. CASE bubbles[i].key # active
    <3>1. ~In(q, bubbles[i].key)
      <4> SUFFICES ASSUME In(q, bubbles[i].key) PROVE FALSE
        OBVIOUS
      <4>1. a[bubbles[i].key].sent = 0
        BY <1>7, <1>13, <1>21, <2>3
      <4> QED BY <1>21, <4>1
    <3> QED BY <1>12, <1>21, <2>1, <2>3, <3>1
  <2> QED BY <2>2, <2>3
<1>23. \A i \in 1..(m - d) :
         /\ d + i \in 1..m /\ d + i \in 1..Len(q)
         /\ q[d + i] # active
         /\ bubbles'[Len(bubbles) + i].key = q[d + i] /\ ~bubbles'[Len(bubbles) + i].mixed
         /\ bubbles'[Len(bubbles) + i].got > 0
         /\ bubbles'[Len(bubbles) + i].got = answers'[q[d + i]].sent
  <2> SUFFICES ASSUME NEW i \in 1..(m - d)
               PROVE  /\ d + i \in 1..m /\ d + i \in 1..Len(q)
                      /\ q[d + i] # active
                      /\ bubbles'[Len(bubbles) + i].key = q[d + i]
                      /\ ~bubbles'[Len(bubbles) + i].mixed
                      /\ bubbles'[Len(bubbles) + i].got > 0
                      /\ bubbles'[Len(bubbles) + i].got = answers'[q[d + i]].sent
    OBVIOUS
  <2>1. d + i \in 1..m /\ d + i \in 1..Len(q)
    BY <1>1, <1>3
  <2>2. q[d + i] # active
    <3>1. CASE active = None
      BY <1>1, <2>1, <3>1
    <3>2. CASE active # None
      <4>1. d + i # 1 /\ 1 \in 1..Len(q) /\ q[1] = active
        BY <1>1, <1>3, <1>5, <3>2
      <4> QED BY <1>4, <2>1, <4>1
    <3> QED BY <3>1, <3>2
  <2>3. /\ bubbles'[Len(bubbles) + i].key = q[d + i] /\ ~bubbles'[Len(bubbles) + i].mixed
        /\ bubbles'[Len(bubbles) + i].got = a[q[d + i]].text
    BY DEF Advanced
  <2>4. a[q[d + i]].text > 0 /\ answers'[q[d + i]].sent = a[q[d + i]].text
    BY <1>7, <1>10, <2>1
  <2> QED BY <2>1, <2>2, <2>3, <2>4
<1>24. \A i \in 1..Len(bubbles') :
         i \in 1..Len(bubbles) \/ \E j \in 1..(m - d) : i = Len(bubbles) + j
  <2> SUFFICES ASSUME NEW i \in 1..Len(bubbles'), i \notin 1..Len(bubbles)
               PROVE  \E j \in 1..(m - d) : i = Len(bubbles) + j
    OBVIOUS
  <2>1. Len(bubbles') = Len(bubbles) + (m - d)
    BY DEF Advanced
  <2>2. i - Len(bubbles) \in 1..(m - d) /\ i = Len(bubbles) + (i - Len(bubbles))
    BY <1>1, <1>3, <2>1
  <2> QED BY <2>2
<1>25. BubblesInv(answers)'
  <2>1. \A i \in 1..Len(bubbles') :
          /\ ~bubbles'[i].mixed
          /\ bubbles'[i].got > 0 /\ bubbles'[i].got = answers'[bubbles'[i].key].sent
    BY <1>22, <1>23, <1>24
  <2>2. \A i, j \in 1..Len(bubbles) : bubbles'[i].key = bubbles'[j].key => i = j
    BY <1>22 DEF Relayed, BubblesInv
  <2>3. \A i, j \in 1..(m - d) :
          bubbles'[Len(bubbles) + i].key = bubbles'[Len(bubbles) + j].key => i = j
    <3> SUFFICES ASSUME NEW i \in 1..(m - d), NEW j \in 1..(m - d),
                        bubbles'[Len(bubbles) + i].key = bubbles'[Len(bubbles) + j].key
                 PROVE  i = j
      OBVIOUS
    <3>1. d + i \in 1..Len(q) /\ d + j \in 1..Len(q) /\ q[d + i] = q[d + j]
      BY <1>23
    <3>2. d + i = d + j
      BY <1>4, <3>1
    <3> QED BY <1>3, <3>2
  <2>4. ASSUME NEW i \in 1..Len(bubbles), NEW j \in 1..(m - d)
        PROVE  bubbles'[i].key # bubbles'[Len(bubbles) + j].key
    <3>1. a[q[d + j]].sent = 0 /\ bubbles'[Len(bubbles) + j].key = q[d + j]
      BY <1>7, <1>23
    <3>2. a[bubbles[i].key].sent > 0 /\ bubbles'[i].key = bubbles[i].key
      BY <1>21, <1>22
    <3> QED BY <3>1, <3>2
  <2>5. \A i, j \in 1..Len(bubbles') : bubbles'[i].key = bubbles'[j].key => i = j
    <3> SUFFICES ASSUME NEW i \in 1..Len(bubbles'), NEW j \in 1..Len(bubbles'),
                        bubbles'[i].key = bubbles'[j].key
                 PROVE  i = j
      OBVIOUS
    <3> QED BY <1>24, <2>2, <2>3, <2>4
  <2> QED BY <2>1, <2>5 DEF BubblesInv
<1>26. \A k \in Keys : answers'[k].text = a[k].text /\ answers'[k].finished = a[k].finished
  BY DEF Advanced
<1>27. \A k \in Keys : In(queue', k) => In(q, k)
  BY <1>8, <1>14 DEF In
<1>28. \A k \in Keys : In(q, k) /\ ~In(queue', k) => a[k].finished /\ \E i \in 1..n : q[i] = k
  <2> SUFFICES ASSUME NEW k \in Keys, In(q, k), ~In(queue', k)
               PROVE  a[k].finished /\ \E i \in 1..n : q[i] = k
    OBVIOUS
  <2>1. PICK i \in 1..Len(q) : q[i] = k
    BY DEF In
  <2>2. i \in 1..n
    <3> SUFFICES ASSUME i \notin 1..n PROVE FALSE
      OBVIOUS
    <3>1. i - n \in 1..(Len(q) - n) /\ n + (i - n) = i
      BY <1>1, <1>3
    <3>2. In(queue', k)
      BY <1>14, <2>1, <3>1
    <3> QED BY <3>2
  <2>3. a[q[i]].finished
    BY <2>2 DEF Advanced
  <2> QED BY <2>1, <2>2, <2>3
<1>29. \A k \in Keys : (\E i \in 1..m : q[i] = k) => answers'[k].sent = a[k].text
  BY DEF Advanced
<1>30. \A k \in Keys : ~(\E i \in 1..m : q[i] = k) => answers'[k].sent = a[k].sent
  BY DEF Advanced
<1>31. ASSUME NEW k \in Keys, answers'[k].sent > 0
       PROVE  \E i \in 1..Len(bubbles') : bubbles'[i].key = k
  <2>1. Len(bubbles') = Len(bubbles) + (m - d)
    BY DEF Advanced
  <2>2. ASSUME NEW i \in 1..Len(bubbles), bubbles[i].key = k
        PROVE  \E j \in 1..Len(bubbles') : bubbles'[j].key = k
    <3>1. i \in 1..Len(bubbles') /\ bubbles'[i].key = k
      BY <1>1, <1>3, <1>22, <2>1, <2>2
    <3> QED BY <3>1
  <2>3. CASE \E i \in 1..m : q[i] = k
    <3>1. PICK i \in 1..m : q[i] = k
      BY <2>3
    <3>2. CASE i <= d
      <4>1. i = 1 /\ active # None
        BY <1>3, <3>2
      <4>2. active = k /\ Len(bubbles) \in 1..Len(bubbles) /\ bubbles[Len(bubbles)].key = active
        BY <1>1, <1>5, <3>1, <4>1 DEF Relayed, QueueInv
      <4> QED BY <2>2, <4>2
    <3>3. CASE i > d
      <4>1. i - d \in 1..(m - d) /\ d + (i - d) = i
        BY <3>3
      <4>2. bubbles'[Len(bubbles) + (i - d)].key = k
        BY <1>23, <3>1, <4>1
      <4>3. Len(bubbles) + (i - d) \in 1..Len(bubbles')
        BY <1>1, <2>1, <4>1
      <4> QED BY <4>2, <4>3
    <3> QED BY <3>2, <3>3
  <2>4. CASE ~(\E i \in 1..m : q[i] = k)
    <3>1. a[k].sent > 0
      BY <1>30, <1>31, <2>4
    <3>2. PICK i \in 1..Len(bubbles) : bubbles[i].key = k
      BY <3>1 DEF Relayed, AnswersInv, Shown
    <3> QED BY <2>2, <3>2
  <2> QED BY <2>3, <2>4
<1>32. ASSUME NEW k \in Keys, In(queue', k), k # active'
       PROVE  answers'[k].sent = 0
  <2>1. PICK i \in 1..(Len(q) - n) : q[n + i] = k
    BY <1>14, <1>32
  <2>2. n + i \in 1..Len(q)
    BY <1>1
  <2>3. n + i > m
    <3>1. n < m => n + 1 = m /\ active' = q[m]
      BY <1>3, <1>15
    <3>2. n < m => i # 1
      BY <1>32, <2>1, <3>1
    <3> QED BY <1>3, <3>1, <3>2
  <2>4. k # active
    <3> SUFFICES ASSUME k = active PROVE FALSE
      OBVIOUS
    <3>1. active # None /\ q[1] = k /\ 1 \in 1..Len(q) /\ m >= 1
      BY <1>1, <1>5
    <3>2. n + i = 1
      BY <1>4, <2>1, <2>2, <3>1
    <3> QED BY <2>3, <3>1, <3>2
  <2>5. a[k].sent = 0
    BY <1>7, <2>1, <2>2, <2>4
  <2> QED BY <1>11, <2>1, <2>2, <2>3, <2>5
<1>33. ASSUME NEW k \in Keys, ~In(queue', k)
       PROVE  /\ answers'[k].text > 0 => answers'[k].finished
              /\ k \notin again => answers'[k].sent = answers'[k].text
  <2>1. CASE In(q, k)
    <3>1. a[k].finished /\ \E i \in 1..m : q[i] = k
      BY <1>3, <1>28, <1>33, <2>1
    <3> QED BY <1>26, <1>29, <3>1
  <2>2. CASE ~In(q, k)
    <3>1. /\ a[k].text > 0 => a[k].finished
          /\ k \notin again => a[k].sent = a[k].text
      BY <2>2 DEF Relayed, AnswersInv
    <3> QED BY <1>12, <1>26, <2>2, <3>1
  <2> QED BY <2>1, <2>2
<1>34. ASSUME NEW k \in Keys
       PROVE  answers'[k].sent <= answers'[k].text
  <2>1. a[k].sent <= a[k].text
    BY DEF Relayed, AnswersInv
  <2> QED BY <1>2, <1>26, <1>29, <1>30, <2>1
<1>35. \A k \in Keys : In(queue', k) => answers'[k].text > 0
  <2>1. \A k \in Keys : In(q, k) => a[k].text > 0
    BY DEF Relayed, AnswersInv
  <2> QED BY <1>26, <1>27, <2>1
<1>36. AnswersInv(answers, queue)'
  <2> SUFFICES ASSUME NEW k \in Keys
               PROVE  /\ answers'[k].sent <= answers'[k].text
                      /\ answers'[k].sent > 0 => Shown(k)'
                      /\ In(queue', k) => answers'[k].text > 0 /\ (k # active' => answers'[k].sent = 0)
                      /\ ~In(queue', k) => (answers'[k].text > 0 => answers'[k].finished)
                      /\ ~In(queue', k) /\ k \notin again' => answers'[k].sent = answers'[k].text
    BY DEF AnswersInv, In
  <2> QED BY <1>31, <1>32, <1>33, <1>34, <1>35 DEF Shown
<1>37. (\A i \in 1..Len(q) : a[q[i]].finished) => queue' = <<>>
  <2> SUFFICES ASSUME \A i \in 1..Len(q) : a[q[i]].finished PROVE queue' = <<>>
    OBVIOUS
  <2>1. ~(n < Len(q))
    <3>1. n < Len(q) => ~a[q[n + 1]].finished /\ n + 1 \in 1..Len(q)
      BY <1>1 DEF Advanced
    <3> QED BY <3>1
  <2>2. Len(queue') = 0 /\ queue' \in Seq(Keys)
    BY <1>1, <1>3, <1>9, <2>1 DEF Advanced
  <2> QED BY <2>2
<1>38. active' \in Keys \union {None}
  <2>1. n < m => m \in 1..Len(q)
    BY <1>1, <1>3
  <2> QED BY <1>1, <1>15, <2>1
<1>39. answers' \in [Keys -> Answer] /\ queue' \in Seq(Keys) /\ bubbles' \in Seq(Bubbles)
  BY DEF Advanced
<1>40. Relayed(answers, queue)'
  BY <1>20, <1>25, <1>36 DEF Relayed
<1> QED BY <1>12, <1>26, <1>27, <1>37, <1>38, <1>39, <1>40 DEF Kept

LEMMA AdvanceKeeps ==
  ASSUME NEW a \in [Keys -> Answer], NEW q \in Seq(Keys), Relayed(a, q),
         bubbles \in Seq(Bubbles), active \in Keys \union {None},
         Advance(a, q), again' = again
  PROVE  Kept(a, q)
<1>1. PICK n, m, d \in 0..(Len(q) + 1) : Advanced(a, q, n, m, d)
  BY AdvanceShape
<1>2. n \in Nat /\ m \in Nat /\ d \in Nat
  OBVIOUS
<1> QED BY <1>1, <1>2, AdvancedKeeps

-----------------------------------------------------------------------------
(* What the relay is handed *)

\* An answer may grow and be closed; one that is not queued may only be closed, unless
\* its call is repeated.  The queue is as it was, or ends with an answer that begins.
Handed(a, q, k) ==
    /\ \A x \in Keys :
        /\ a[x].sent = answers[x].sent /\ a[x].text >= answers[x].text
        /\ answers[x].finished => a[x].finished
        /\ ~In(q, x) => (a[x].text > 0 => answers[x].text > 0)
        /\ ~In(q, x) /\ x \notin again => a[x].text = answers[x].text
    /\ \/ q = queue
       \/ k \in Keys /\ q = Append(queue, k) /\ answers[k].text = 0 /\ a[k].text > 0

LEMMA AppendedQueue ==
  ASSUME queue \in Seq(Keys), NEW k \in Keys
  PROVE  /\ Append(queue, k) \in Seq(Keys) /\ Len(Append(queue, k)) = Len(queue) + 1
         /\ \A i \in 1..Len(queue) : Append(queue, k)[i] = queue[i]
         /\ Append(queue, k)[Len(queue) + 1] = k
         /\ \A x : In(Append(queue, k), x) <=> In(queue, x) \/ x = k
<1>1. /\ Append(queue, k) \in Seq(Keys) /\ Len(Append(queue, k)) = Len(queue) + 1
      /\ \A i \in 1..Len(queue) : Append(queue, k)[i] = queue[i]
      /\ Append(queue, k)[Len(queue) + 1] = k
  BY AppendProperties
<1>2. Len(queue) \in Nat
  OBVIOUS
<1>3. \A i \in 1..(Len(queue) + 1) : i \in 1..Len(queue) \/ i = Len(queue) + 1
  BY <1>2
<1>4. ASSUME NEW x, In(queue, x) PROVE In(Append(queue, k), x)
  <2>1. PICK i \in 1..Len(queue) : queue[i] = x
    BY <1>4 DEF In
  <2>2. i \in 1..Len(Append(queue, k)) /\ Append(queue, k)[i] = x
    BY <1>1, <1>2, <2>1
  <2> QED BY <2>2 DEF In
<1>5. In(Append(queue, k), k)
  <2>1. Len(queue) + 1 \in 1..Len(Append(queue, k))
    BY <1>1, <1>2
  <2> QED BY <1>1, <2>1 DEF In
<1>6. ASSUME NEW x, In(Append(queue, k), x) PROVE In(queue, x) \/ x = k
  <2>1. PICK i \in 1..Len(Append(queue, k)) : Append(queue, k)[i] = x
    BY <1>6 DEF In
  <2>2. CASE i \in 1..Len(queue)
    BY <1>1, <2>1, <2>2 DEF In
  <2>3. CASE i = Len(queue) + 1
    BY <1>1, <2>1, <2>3
  <2> QED BY <1>1, <1>3, <2>1, <2>2, <2>3
<1> QED BY <1>1, <1>4, <1>5, <1>6

LEMMA HandedIsRelayed ==
  ASSUME answers \in [Keys -> Answer], queue \in Seq(Keys), bubbles \in Seq(Bubbles),
         active \in Keys \union {None}, Relayed(answers, queue),
         NEW a \in [Keys -> Answer], NEW q, NEW k, Handed(a, q, k)
  PROVE  q \in Seq(Keys) /\ Relayed(a, q)
<1>1. /\ Len(queue) \in Nat /\ None \notin Keys
      /\ \A x \in Keys : /\ a[x] \in Answer /\ a[x].text \in Nat /\ a[x].sent \in Nat
                         /\ answers[x] \in Answer
                         /\ answers[x].text \in Nat /\ answers[x].sent \in Nat
  BY NoneAssumption DEF Answer
<1>2. /\ q \in Seq(Keys) /\ Len(q) \in Nat /\ Len(q) >= Len(queue)
      /\ \A i \in 1..Len(queue) : q[i] = queue[i]
      /\ \A x : In(queue, x) => In(q, x)
      /\ \A x : In(q, x) => In(queue, x) \/ (x = k /\ answers[k].text = 0 /\ a[k].text > 0)
  <2>1. CASE q = queue
    BY <1>1, <2>1
  <2>2. CASE k \in Keys /\ q = Append(queue, k) /\ answers[k].text = 0 /\ a[k].text > 0
    BY <1>1, <2>2, AppendedQueue
  <2> QED BY <2>1, <2>2 DEF Handed
<1>3. QueueInv(q)
  <2>1. ASSUME NEW i \in 1..Len(q), NEW j \in 1..Len(q), q[i] = q[j]
        PROVE  i = j
    <3>1. CASE q = queue
      BY <2>1, <3>1 DEF Relayed, QueueInv
    <3>2. CASE k \in Keys /\ q = Append(queue, k) /\ answers[k].text = 0
      <4>1. ~In(queue, k)
        BY <1>1, <3>2 DEF Relayed, AnswersInv
      <4>2. \A l \in 1..Len(queue) : q[l] = queue[l] /\ q[l] # k
        BY <1>2, <4>1 DEF In
      <4>3. Len(q) = Len(queue) + 1 /\ q[Len(queue) + 1] = k
        BY <3>2, AppendedQueue
      <4>4. CASE i \in 1..Len(queue) /\ j \in 1..Len(queue)
        BY <2>1, <4>2, <4>4 DEF Relayed, QueueInv
      <4>5. CASE ~(i \in 1..Len(queue) /\ j \in 1..Len(queue))
        <5>1. \A l \in 1..Len(q) : l \in 1..Len(queue) \/ l = Len(queue) + 1
          BY <1>1, <4>3
        <5> QED BY <2>1, <4>2, <4>3, <4>5, <5>1
      <4> QED BY <4>4, <4>5
    <3> QED BY <3>1, <3>2 DEF Handed
  <2>2. active # None =>
          /\ Len(queue) > 0 /\ queue[1] = active
          /\ Len(bubbles) > 0 /\ bubbles[Len(bubbles)].key = active
    BY DEF Relayed, QueueInv
  <2>3. ASSUME active # None PROVE Len(q) > 0 /\ q[1] = active
    <3>1. Len(queue) > 0 /\ queue[1] = active
      BY <2>2, <2>3
    <3>2. 1 \in 1..Len(queue)
      BY <1>1, <3>1
    <3>3. q[1] = queue[1]
      BY <1>2, <3>2
    <3>4. Len(q) > 0
      BY <1>1, <1>2, <3>1
    <3> QED BY <3>1, <3>3, <3>4
  <2> QED BY <2>1, <2>2, <2>3 DEF QueueInv
<1>4. BubblesInv(a)
  <2>1. \A i \in 1..Len(bubbles) : bubbles[i] \in Bubbles
    OBVIOUS
  <2>2. \A i \in 1..Len(bubbles) : bubbles[i].key \in Keys
    BY <2>1 DEF Bubbles
  <2>3. \A i \in 1..Len(bubbles) : a[bubbles[i].key].sent = answers[bubbles[i].key].sent
    BY <2>2 DEF Handed
  <2> QED BY <2>3 DEF Relayed, BubblesInv
<1>5. AnswersInv(a, q)
  <2> SUFFICES ASSUME NEW x \in Keys
               PROVE  /\ a[x].sent <= a[x].text
                      /\ a[x].sent > 0 => Shown(x)
                      /\ In(q, x) => a[x].text > 0 /\ (x # active => a[x].sent = 0)
                      /\ ~In(q, x) => (a[x].text > 0 => a[x].finished)
                      /\ ~In(q, x) /\ x \notin again => a[x].sent = a[x].text
    BY DEF AnswersInv
  <2>1. /\ a[x].sent = answers[x].sent /\ a[x].text >= answers[x].text
        /\ answers[x].finished => a[x].finished
        /\ ~In(q, x) => (a[x].text > 0 => answers[x].text > 0)
        /\ ~In(q, x) /\ x \notin again => a[x].text = answers[x].text
    BY DEF Handed
  <2>2. /\ answers[x].sent <= answers[x].text
        /\ answers[x].sent > 0 => Shown(x)
        /\ In(queue, x) => answers[x].text > 0 /\ (x # active => answers[x].sent = 0)
        /\ ~In(queue, x) => (answers[x].text > 0 => answers[x].finished)
        /\ ~In(queue, x) /\ x \notin again => answers[x].sent = answers[x].text
    BY DEF Relayed, AnswersInv
  <2>3. ASSUME In(q, x)
        PROVE  a[x].text > 0 /\ (x # active => a[x].sent = 0)
    BY <1>1, <1>2, <2>1, <2>2, <2>3
  <2>4. ASSUME ~In(q, x) PROVE ~In(queue, x)
    BY <1>2, <2>4
  <2> QED BY <1>1, <2>1, <2>2, <2>3, <2>4
<1> QED BY <1>2, <1>3, <1>4, <1>5 DEF Relayed

\* The two together.
LEMMA HandedIsKept ==
  ASSUME answers \in [Keys -> Answer], queue \in Seq(Keys), bubbles \in Seq(Bubbles),
         active \in Keys \union {None}, Relayed(answers, queue),
         NEW a \in [Keys -> Answer], NEW q, NEW k, Handed(a, q, k),
         Advance(a, q), again' = again
  PROVE  Kept(a, q)
BY HandedIsRelayed, AdvanceKeeps

-----------------------------------------------------------------------------
(* The steps *)

LEMMA Typed ==
  ASSUME TypeOK
  PROVE  /\ answers \in [Keys -> Answer] /\ queue \in Seq(Keys)
         /\ bubbles \in Seq(Bubbles) /\ active \in Keys \union {None}
         /\ suppressed \subseteq Keys /\ again \subseteq Keys /\ wholes \in 0..MaxWholes
         /\ taskDone \subseteq Tasks /\ branch \in [Tasks -> Branches]
         /\ calls \in [Tasks -> 0..MaxCalls] /\ run \in {"graph", "settling", "done", "failed"}
         /\ spoken \in [Keys -> Nat]
  BY DEF TypeOK, Answer, Bubbles

LEMMA TypedAgain ==
  ASSUME answers' \in [Keys -> Answer], queue' \in Seq(Keys),
         bubbles' \in Seq(Bubbles), active' \in Keys \union {None},
         suppressed' \subseteq Keys, again' \subseteq Keys, wholes' \in 0..MaxWholes,
         taskDone' \subseteq Tasks, branch' \in [Tasks -> Branches],
         calls' \in [Tasks -> 0..MaxCalls], run' \in {"graph", "settling", "done", "failed"},
         spoken' \in [Keys -> Nat]
  PROVE  TypeOK'
  BY DEF TypeOK, Answer, Bubbles

LEMMA CallKey ==
  ASSUME TypeOK, NEW t \in Tasks
  PROVE  /\ calls[t] > 0 => Call(t) \in Keys
         /\ Call(t)[1] = t /\ Call(t)[2] = <<"call", calls[t]>>
         /\ \A u \in Tasks : Call(t) = Call(u) => t = u
         /\ \A i : <<t, <<"whole", i>>>> # Call(t)
<1>1. calls[t] \in 0..MaxCalls /\ MaxCalls \in Nat
  BY Typed, ConstantsAssumption
<1>2. Call(t) = <<t, <<"call", calls[t]>>>>
  BY DEF Call
<1>3. calls[t] > 0 => Call(t) \in Keys
  BY <1>1, <1>2 DEF Keys
<1>4. \A u \in Tasks : Call(u)[1] = u
  BY DEF Call
<1>5. \A i : <<t, <<"whole", i>>>> # Call(t)
  <2> SUFFICES ASSUME NEW i, <<t, <<"whole", i>>>> = Call(t) PROVE FALSE
    OBVIOUS
  <2>1. <<"whole", i>> = <<"call", calls[t]>>
    BY <1>2
  <2>2. "whole" = "call"
    BY <2>1
  <2> QED BY <2>2
<1> QED BY <1>2, <1>3, <1>4, <1>5

LEMMA WholeKey ==
  ASSUME NEW t \in Tasks, NEW i \in 1..MaxWholes
  PROVE  <<t, <<"whole", i>>>> \in Keys
  BY DEF Keys

\* A step that leaves the relay and the client alone.
LEMMA RelayRests ==
  ASSUME Relayed(answers, queue), UNCHANGED <<relay, bubbles>>, again \subseteq again'
  PROVE  Relayed(answers, queue)'
<1>1. answers' = answers /\ queue' = queue /\ active' = active /\ bubbles' = bubbles
  BY DEF relay
<1>2. QueueInv(queue)' /\ BubblesInv(answers)'
  BY <1>1 DEF Relayed, QueueInv, BubblesInv
<1>3. AnswersInv(answers, queue)'
  BY <1>1 DEF Relayed, AnswersInv, In, Shown
<1> QED BY <1>2, <1>3 DEF Relayed

LEMMA DispatchKeeps ==
  ASSUME IInv, Dispatch
  PROVE  IInv'
<1> USE DEF relay
<1>1. PICK chosen \in SUBSET (Tasks \ taskDone) :
        branch' = [t \in Tasks |-> IF t \in chosen THEN "idle" ELSE "off"]
  BY DEF Dispatch
<1>2. /\ UNCHANGED <<relay, bubbles>> /\ again' = again
      /\ UNCHANGED <<answers, queue, suppressed, wholes, taskDone, calls, run, spoken>>
  BY DEF Dispatch
<1>3. branch' \in [Tasks -> Branches]
  BY <1>1 DEF Branches
<1>4. TypeOK'
  BY <1>2, <1>3, Typed, TypedAgain DEF IInv
<1>5. Relayed(answers, queue)'
  BY <1>2, RelayRests DEF IInv
<1>6. FreshInv'
  BY <1>2 DEF IInv, FreshInv
<1>7. SpeakingInv'
  <2>1. \A t \in Tasks : branch'[t] # "calling"
    BY <1>1
  <2> QED BY <1>2, <2>1 DEF IInv, SpeakingInv, Calling
<1>8. AnnouncedInv'
  <2>1. \A t \in taskDone : branch'[t] = "off"
    BY <1>1, Typed DEF IInv
  <2> QED BY <1>2, <2>1 DEF IInv, AnnouncedInv
<1> QED BY <1>4, <1>5, <1>6, <1>7, <1>8 DEF IInv

LEMMA BeginCallKeeps ==
  ASSUME IInv, NEW t \in Tasks, BeginCall(t)
  PROVE  IInv'
<1> USE DEF relay
<1>1. /\ run = "graph" /\ branch[t] = "idle" /\ calls[t] < MaxCalls
      /\ branch' = [branch EXCEPT ![t] = "calling"]
      /\ calls' = [calls EXCEPT ![t] = @ + 1]
      /\ UNCHANGED <<relay, bubbles>> /\ again' = again
      /\ UNCHANGED <<answers, queue, suppressed, wholes, taskDone, run, spoken>>
  BY DEF BeginCall, Idle
<1>2. /\ branch \in [Tasks -> Branches] /\ calls \in [Tasks -> 0..MaxCalls] /\ MaxCalls \in Nat
  BY Typed, ConstantsAssumption DEF IInv
<1>3. /\ branch' \in [Tasks -> Branches] /\ calls' \in [Tasks -> 0..MaxCalls]
      /\ calls'[t] = calls[t] + 1 /\ \A u \in Tasks : u # t => calls'[u] = calls[u]
      /\ \A u \in Tasks : u # t => branch'[u] = branch[u]
  BY <1>1, <1>2 DEF Branches
<1>4. TypeOK'
  BY <1>1, <1>3, Typed, TypedAgain DEF IInv
<1>5. Relayed(answers, queue)'
  BY <1>1, RelayRests DEF IInv
<1>6. FreshInv'
  <2>1. \A u \in Tasks : calls[u] \in Nat /\ calls'[u] >= calls[u]
    BY <1>2, <1>3
  <2>2. \A u \in Tasks, i \in 1..MaxCalls : i > calls'[u] => i > calls[u]
    BY <1>2, <1>3, <2>1
  <2>3. \A u \in Tasks, i \in 1..MaxCalls :
          i > calls'[u] => answers'[<<u, <<"call", i>>>>] = Silence
    BY <1>1, <2>2 DEF IInv, FreshInv
  <2>4. \A u \in Tasks, i \in 1..MaxWholes :
          i > wholes' => answers'[<<u, <<"whole", i>>>>] = Silence
    BY <1>1 DEF IInv, FreshInv
  <2> QED BY <2>3, <2>4 DEF FreshInv
<1>7. SpeakingInv'
  <2>1. \A u \in Tasks : branch'[u] = "calling" => calls'[u] > 0
    BY <1>2, <1>3 DEF IInv, SpeakingInv
  <2>2. ASSUME NEW u \in Tasks, Calling(u)', Call(u)' \notin again' \union suppressed'
        PROVE  ~answers'[Call(u)'].finished
    <3>1. CASE u = t
      <4>1. Call(t)' = <<t, <<"call", calls[t] + 1>>>>
        BY <1>3 DEF Call
      <4>2. calls[t] + 1 \in 1..MaxCalls /\ calls[t] + 1 > calls[t]
        BY <1>1, <1>2
      <4>3. answers[<<t, <<"call", calls[t] + 1>>>>] = Silence
        BY <4>2 DEF IInv, FreshInv
      <4> QED BY <1>1, <3>1, <4>1, <4>3 DEF Silence
    <3>2. CASE u # t
      <4>1. Call(u)' = Call(u) /\ Calling(u)
        BY <1>1, <1>3, <2>2, <3>2 DEF Call, Calling
      <4> QED BY <1>1, <2>2, <4>1 DEF IInv, SpeakingInv
    <3> QED BY <3>1, <3>2
  <2>3. \A k \in Keys : spoken'[k] = answers'[k].text
    BY <1>1 DEF IInv, SpeakingInv
  <2> QED BY <2>1, <2>2, <2>3 DEF SpeakingInv
<1>8. AnnouncedInv'
  <2>1. \A u \in taskDone : branch'[u] = "off"
    <3>1. t \notin taskDone
      BY <1>1 DEF IInv, AnnouncedInv
    <3> QED BY <1>3, <3>1, Typed DEF IInv, AnnouncedInv
  <2> QED BY <1>1, <2>1 DEF IInv, AnnouncedInv
<1> QED BY <1>4, <1>5, <1>6, <1>7, <1>8 DEF IInv

LEMMA CallAgainKeeps ==
  ASSUME IInv, NEW t \in Tasks, CallAgain(t)
  PROVE  IInv'
<1> USE DEF relay
<1>1. /\ run = "graph" /\ branch[t] = "idle" /\ calls[t] > 0
      /\ branch' = [branch EXCEPT ![t] = "calling"]
      /\ again' = again \union {Call(t)}
      /\ UNCHANGED <<relay, bubbles>>
      /\ UNCHANGED <<answers, queue, suppressed, wholes, taskDone, calls, run, spoken>>
  BY DEF CallAgain, Idle
<1>2. branch \in [Tasks -> Branches] /\ Call(t) \in Keys
  BY <1>1, Typed, CallKey DEF IInv
<1>3. /\ branch' \in [Tasks -> Branches] /\ again' \subseteq Keys
      /\ \A u \in Tasks : u # t => branch'[u] = branch[u]
  BY <1>1, <1>2, Typed DEF Branches, IInv
<1>4. TypeOK'
  BY <1>1, <1>3, Typed, TypedAgain DEF IInv
<1>5. Relayed(answers, queue)'
  BY <1>1, RelayRests DEF IInv
<1>6. FreshInv'
  BY <1>1 DEF IInv, FreshInv
<1>7. SpeakingInv'
  <2>1. \A u \in Tasks : branch'[u] = "calling" => calls'[u] > 0
    BY <1>1, <1>3 DEF IInv, SpeakingInv
  <2>2. ASSUME NEW u \in Tasks, Calling(u)', Call(u)' \notin again' \union suppressed'
        PROVE  ~answers'[Call(u)'].finished
    <3>1. Call(u)' = Call(u)
      BY <1>1 DEF Call
    <3>2. u # t
      BY <1>1, <2>2, <3>1
    <3>3. Calling(u)
      BY <1>1, <1>3, <2>2, <3>2 DEF Calling
    <3> QED BY <1>1, <2>2, <3>1, <3>3 DEF IInv, SpeakingInv
  <2>3. \A k \in Keys : spoken'[k] = answers'[k].text
    BY <1>1 DEF IInv, SpeakingInv
  <2> QED BY <2>1, <2>2, <2>3 DEF SpeakingInv
<1>8. AnnouncedInv'
  <2>1. t \notin taskDone
    BY <1>1 DEF IInv, AnnouncedInv
  <2>2. \A u \in taskDone : branch'[u] = "off"
    BY <1>3, <2>1, Typed DEF IInv, AnnouncedInv
  <2> QED BY <1>1, <2>2 DEF IInv, AnnouncedInv
<1> QED BY <1>4, <1>5, <1>6, <1>7, <1>8 DEF IInv

\* A branch that is not over goes to a place where it does not call.
LEMMA BranchMoves ==
  ASSUME IInv, NEW t \in Tasks, run = "graph", branch[t] # "off",
         NEW place \in Branches \ {"calling"}, branch' = [branch EXCEPT ![t] = place],
         UNCHANGED <<relay, suppressed, wholes, bubbles, taskDone, calls, run, spoken, again>>
  PROVE  IInv'
<1> USE DEF relay
<1>1. /\ UNCHANGED <<relay, bubbles>> /\ again' = again
      /\ UNCHANGED <<answers, queue, suppressed, wholes, taskDone, calls, run, spoken>>
  OBVIOUS
<1>2. branch \in [Tasks -> Branches]
  BY Typed DEF IInv
<1>3. /\ branch' \in [Tasks -> Branches] /\ branch'[t] # "calling"
      /\ \A u \in Tasks : u # t => branch'[u] = branch[u]
  BY <1>2
<1>4. TypeOK'
  BY <1>1, <1>3, Typed, TypedAgain DEF IInv
<1>5. Relayed(answers, queue)'
  BY <1>1, RelayRests DEF IInv
<1>6. FreshInv'
  BY <1>1 DEF IInv, FreshInv
<1>7. SpeakingInv'
  <2>1. \A u \in Tasks : branch'[u] = "calling" => branch[u] = "calling"
    BY <1>3
  <2>2. ASSUME NEW u \in Tasks, Calling(u)', Call(u)' \notin again' \union suppressed'
        PROVE  ~answers'[Call(u)'].finished
    <3>1. Call(u)' = Call(u) /\ Calling(u)
      BY <1>1, <2>1, <2>2 DEF Call, Calling
    <3> QED BY <1>1, <2>2, <3>1 DEF IInv, SpeakingInv
  <2>3. \A k \in Keys : spoken'[k] = answers'[k].text
    BY <1>1 DEF IInv, SpeakingInv
  <2>4. \A u \in Tasks : branch'[u] = "calling" => calls'[u] > 0
    BY <1>1, <2>1 DEF IInv, SpeakingInv
  <2> QED BY <2>2, <2>3, <2>4 DEF SpeakingInv
<1>8. AnnouncedInv'
  <2>1. t \notin taskDone
    BY DEF IInv, AnnouncedInv
  <2>2. \A u \in taskDone : branch'[u] = "off"
    BY <1>3, <2>1, Typed DEF IInv, AnnouncedInv
  <2> QED BY <1>1, <2>2 DEF IInv, AnnouncedInv
<1> QED BY <1>4, <1>5, <1>6, <1>7, <1>8 DEF IInv

LEMMA CallReturnsKeeps ==
  ASSUME IInv, NEW t \in Tasks, CallReturns(t)
  PROVE  IInv'
<1>1. /\ run = "graph" /\ branch[t] # "off" /\ branch' = [branch EXCEPT ![t] = "idle"]
      /\ UNCHANGED <<relay, suppressed, wholes, bubbles, taskDone, calls, run, spoken, again>>
  BY DEF CallReturns, Calling
<1>2. "idle" \in Branches \ {"calling"}
  BY DEF Branches
<1> QED BY <1>1, <1>2, BranchMoves

LEMMA EndBranchKeeps ==
  ASSUME IInv, NEW t \in Tasks, EndBranch(t)
  PROVE  IInv'
<1>1. PICK place \in {"card", "reported", "handed_off"} :
        branch' = [branch EXCEPT ![t] = place]
  BY DEF EndBranch
<1>2. /\ run = "graph" /\ branch[t] # "off"
      /\ UNCHANGED <<relay, suppressed, wholes, bubbles, taskDone, calls, run, spoken, again>>
  BY DEF EndBranch, Idle
<1>3. place \in Branches \ {"calling"}
  BY DEF Branches
<1> QED BY <1>1, <1>2, <1>3, BranchMoves

\* The run ends: nobody is calling any more.
LEMMA RunEndKeeps ==
  ASSUME IInv, PublishDone \/ RunFails
  PROVE  IInv'
<1> USE DEF relay
<1>1. /\ run' \in {"done", "failed"} /\ (run' = "done" => run = "settling")
      /\ UNCHANGED <<relay, bubbles>> /\ again' = again
      /\ UNCHANGED <<answers, queue, suppressed, wholes, taskDone, branch, calls, spoken>>
  BY DEF PublishDone, RunFails
<1>2. TypeOK'
  BY <1>1, Typed, TypedAgain DEF IInv
<1>3. Relayed(answers, queue)'
  BY <1>1, RelayRests DEF IInv
<1>4. FreshInv'
  BY <1>1 DEF IInv, FreshInv
<1>5. SpeakingInv'
  BY <1>1 DEF IInv, SpeakingInv, Calling
<1>6. AnnouncedInv'
  BY <1>1 DEF IInv, AnnouncedInv
<1> QED BY <1>2, <1>3, <1>4, <1>5, <1>6 DEF IInv

-----------------------------------------------------------------------------
(* The steps of the relay *)

\* An answer that has not begun and is not what is handed over stays silent.
LEMMA StaysSilent ==
  ASSUME answers \in [Keys -> Answer], NEW a \in [Keys -> Answer], NEW q, NEW k,
         Handed(a, q, k), Kept(a, q),
         NEW x \in Keys, answers[x] = Silence, ~In(q, x), ~a[x].finished
  PROVE  answers'[x] = Silence
<1>1. answers'[x] \in Answer /\ a[x] \in Answer
  BY DEF Kept
<1>2. a[x].text = 0 /\ a[x].sent = 0
  <2>1. answers[x].text = 0 /\ answers[x].sent = 0
    BY DEF Silence
  <2>2. a[x].sent = answers[x].sent /\ ~(a[x].text > 0)
    BY <2>1 DEF Handed
  <2>3. a[x].text \in Nat
    BY <1>1 DEF Answer
  <2> QED BY <2>1, <2>2, <2>3
<1>3. answers'[x].text = 0 /\ answers'[x].sent = 0 /\ answers'[x].finished = FALSE
  <2>1. answers'[x].finished = a[x].finished /\ a[x].finished \in BOOLEAN
    BY <1>1 DEF Kept, Answer
  <2>2. answers'[x].text = 0 /\ answers'[x].sent = 0
    BY <1>2 DEF Kept
  <2> QED BY <2>1, <2>2
<1> QED BY <1>1, <1>3 DEF Silence, Answer

\* The parts of the invariant that follow from how the relay was called.
LEMMA FreshStays ==
  ASSUME IInv, NEW a \in [Keys -> Answer], NEW q, NEW k, Handed(a, q, k), Kept(a, q),
         \A x \in Keys : answers[x] = Silence /\ x # k => ~a[x].finished,
         calls' = calls, wholes' \in {wholes, wholes + 1},
         \A t \in Tasks, i \in 1..MaxCalls : i > calls[t] => <<t, <<"call", i>>>> # k,
         \A t \in Tasks, i \in 1..MaxWholes : i > wholes' => <<t, <<"whole", i>>>> # k
  PROVE  FreshInv'
<1>1. answers \in [Keys -> Answer] /\ queue \in Seq(Keys) /\ wholes \in Nat
  <2>1. wholes \in 0..MaxWholes /\ MaxWholes \in Nat
    BY Typed, ConstantsAssumption DEF IInv
  <2> QED BY <2>1, Typed DEF IInv
<1>2. ASSUME NEW x \in Keys, answers[x] = Silence, x # k
      PROVE  answers'[x] = Silence
  <2>1. answers[x].text = 0
    BY <1>2 DEF Silence
  <2>2. ~In(queue, x)
    BY <2>1 DEF IInv, Relayed, AnswersInv
  <2>3. ~In(q, x)
    <3>1. CASE q = queue
      BY <2>2, <3>1
    <3>2. CASE k \in Keys /\ q = Append(queue, k)
      BY <1>1, <1>2, <2>2, <3>2, AppendedQueue
    <3> QED BY <3>1, <3>2 DEF Handed
  <2> QED BY <1>1, <1>2, <2>3, StaysSilent
<1>3. \A t \in Tasks, i \in 1..MaxCalls : <<t, <<"call", i>>>> \in Keys
  BY DEF Keys
<1>4. \A t \in Tasks, i \in 1..MaxWholes : <<t, <<"whole", i>>>> \in Keys
  BY DEF Keys
<1>5. \A t \in Tasks, i \in 1..MaxCalls :
        i > calls'[t] => answers'[<<t, <<"call", i>>>>] = Silence
  BY <1>2, <1>3 DEF IInv, FreshInv
<1>6. \A t \in Tasks, i \in 1..MaxWholes :
        i > wholes' => answers'[<<t, <<"whole", i>>>>] = Silence
  BY <1>1, <1>2, <1>4 DEF IInv, FreshInv
<1> QED BY <1>5, <1>6 DEF FreshInv

\* The relay takes up what a branch or the end of a batch hands over.
LEMMA RelayTakes ==
  ASSUME IInv, NEW a \in [Keys -> Answer], NEW q, NEW k, Handed(a, q, k), Advance(a, q),
         again' = again
  PROVE  /\ Kept(a, q)
         /\ Relayed(answers, queue)'
         /\ answers' \in [Keys -> Answer] /\ queue' \in Seq(Keys)
         /\ bubbles' \in Seq(Bubbles) /\ active' \in Keys \union {None}
         /\ \A x \in Keys :
              /\ answers'[x].text = a[x].text /\ answers'[x].finished = a[x].finished
              /\ In(queue', x) => In(queue, x) \/ (x = k /\ q # queue)
         /\ (\A x \in Keys : answers[x].text > 0 => a[x].finished) /\ q = queue => queue' = <<>>
<1>1. /\ answers \in [Keys -> Answer] /\ queue \in Seq(Keys) /\ bubbles \in Seq(Bubbles)
      /\ active \in Keys \union {None} /\ Relayed(answers, queue)
  BY Typed DEF IInv
<1>2. Kept(a, q)
  BY <1>1, HandedIsKept
<1>3. \A x \in Keys : In(q, x) => In(queue, x) \/ (x = k /\ q # queue)
  <2>1. CASE q = queue
    BY <2>1
  <2>2. CASE k \in Keys /\ q = Append(queue, k)
    <3>1. Len(q) = Len(queue) + 1 /\ Len(queue) \in Nat
      BY <1>1, <2>2, AppendedQueue
    <3>2. q # queue
      BY <3>1
    <3> QED BY <1>1, <2>2, <3>2, AppendedQueue
  <2> QED BY <2>1, <2>2 DEF Handed
<1>4. (\A x \in Keys : answers[x].text > 0 => a[x].finished) /\ q = queue => queue' = <<>>
  <2> SUFFICES ASSUME \A x \in Keys : answers[x].text > 0 => a[x].finished, q = queue
               PROVE  queue' = <<>>
    OBVIOUS
  <2>1. ASSUME NEW i \in 1..Len(q) PROVE a[q[i]].finished
    <3>1. queue[i] \in Keys /\ In(queue, queue[i])
      BY <1>1 DEF In
    <3>2. answers[queue[i]].text > 0
      BY <1>1, <3>1 DEF Relayed, AnswersInv
    <3> QED BY <3>1, <3>2
  <2> QED BY <1>2, <2>1 DEF Kept
<1> QED BY <1>2, <1>3, <1>4 DEF Kept

\* chunk(), while the call goes on or at its end.
LEMMA StreamTextKeeps ==
  ASSUME IInv, NEW t \in Tasks, StreamText(t)
  PROVE  IInv'
<1> USE DEF relay
<1> DEFINE k == Call(t)
<1>1. /\ Calling(t) /\ run = "graph" /\ branch[t] = "calling" /\ again' = again
      /\ UNCHANGED <<suppressed, wholes, taskDone, calls, run>>
  BY DEF StreamText, Calling
<1>2. PICK n \in {0, 1}, last \in BOOLEAN :
        /\ Chunk(k, n, last)
        /\ spoken' = IF k \in suppressed THEN spoken ELSE [spoken EXCEPT ![k] = @ + n]
        /\ branch' = IF last THEN [branch EXCEPT ![t] = "idle"] ELSE branch
  BY DEF StreamText
<1>3. /\ branch \in [Tasks -> Branches] /\ calls \in [Tasks -> 0..MaxCalls]
      /\ answers \in [Keys -> Answer] /\ queue \in Seq(Keys) /\ spoken \in [Keys -> Nat]
      /\ taskDone \subseteq Tasks
  BY Typed DEF IInv
<1>4. k \in Keys /\ k[1] = t
  <2>1. calls[t] > 0
    BY <1>1 DEF IInv, SpeakingInv
  <2> QED BY <2>1, CallKey DEF IInv
<1>5. t \notin taskDone
  BY <1>1 DEF IInv, AnnouncedInv
<1>6. /\ branch' \in [Tasks -> Branches] /\ (last => branch'[t] = "idle")
      /\ \A u \in Tasks : branch'[u] = "calling" => branch[u] = "calling"
      /\ \A u \in taskDone : branch'[u] = "off"
  <2>1. \A u \in Tasks : branch'[u] = IF last /\ u = t THEN "idle" ELSE branch[u]
    BY <1>2, <1>3
  <2>2. branch' \in [Tasks -> Branches]
    BY <1>2, <1>3 DEF Branches
  <2>3. \A u \in taskDone : branch[u] = "off"
    BY DEF IInv, AnnouncedInv
  <2> QED BY <1>3, <1>5, <2>1, <2>2, <2>3
<1> HIDE DEF k
<1>7. /\ spoken' \in [Keys -> Nat]
      /\ \A x \in Keys : spoken'[x] = IF k \notin suppressed /\ x = k THEN spoken[x] + n
                                      ELSE spoken[x]
  BY <1>2, <1>3, <1>4
<1>8. \A x \in Keys : spoken[x] = answers[x].text /\ answers[x].text \in Nat
  BY <1>3 DEF IInv, SpeakingInv, Answer
<1>9. CASE k \in suppressed \/ answers[k].text + n = 0
  <2>1. UNCHANGED <<relay, bubbles>> /\ answers' = answers /\ queue' = queue /\ active' = active
    BY <1>2, <1>9 DEF Chunk
  <2>2. k \notin suppressed => n = 0
    BY <1>4, <1>8, <1>9
  <2>3. \A x \in Keys : spoken'[x] = spoken[x]
    BY <1>7, <1>8, <2>2
  <2>4. TypeOK'
    BY <1>1, <1>6, <1>7, <2>1, Typed, TypedAgain DEF IInv
  <2>5. Relayed(answers, queue)'
    BY <1>1, <2>1, RelayRests DEF IInv
  <2>6. FreshInv'
    BY <1>1, <2>1 DEF IInv, FreshInv
  <2>7. SpeakingInv'
    <3>1. ASSUME NEW u \in Tasks, Calling(u)', Call(u)' \notin again' \union suppressed'
          PROVE  ~answers'[Call(u)'].finished
      <4>1. Call(u)' = Call(u) /\ Calling(u)
        BY <1>1, <1>6, <3>1 DEF Call, Calling
      <4> QED BY <1>1, <2>1, <3>1, <4>1 DEF IInv, SpeakingInv
    <3>2. \A x \in Keys : spoken'[x] = answers'[x].text
      BY <1>8, <2>1, <2>3
    <3>3. \A u \in Tasks : branch'[u] = "calling" => calls'[u] > 0
      BY <1>1, <1>6 DEF IInv, SpeakingInv
    <3> QED BY <3>1, <3>2, <3>3 DEF SpeakingInv
  <2>8. AnnouncedInv'
    BY <1>1, <1>6, <2>1 DEF IInv, AnnouncedInv
  <2> QED BY <2>4, <2>5, <2>6, <2>7, <2>8 DEF IInv
<1>10. CASE ~(k \in suppressed \/ answers[k].text + n = 0)
  <2>1. PICK a : a = [answers EXCEPT ![k].text = @ + n, ![k].finished = @ \/ last]
    OBVIOUS
  <2>2. PICK q : q = IF answers[k].text = 0 THEN Append(queue, k) ELSE queue
    OBVIOUS
  <2>3. Advance(a, q)
    BY <1>2, <1>10, <2>1, <2>2 DEF Chunk
  <2>4. /\ a \in [Keys -> Answer]
        /\ a[k].text = answers[k].text + n /\ a[k].sent = answers[k].sent
        /\ answers[k].finished => a[k].finished
        /\ ~last /\ ~answers[k].finished => ~a[k].finished
        /\ \A x \in Keys : x # k => a[x] = answers[x]
    <3>1. PICK r \in Answer : r = answers[k]
      BY <1>3, <1>4
    <3>2. PICK e : e = [r EXCEPT !.text = @ + n, !.finished = @ \/ last]
      OBVIOUS
    <3>3. a = [answers EXCEPT ![k] = e]
      BY <2>1, <3>1, <3>2, Zenon
    <3>4. e = [text |-> r.text + n, sent |-> r.sent, finished |-> (r.finished \/ last)]
      BY <3>2, Zenon DEF Answer
    <3>5. r.text \in Nat /\ r.sent \in Nat /\ n \in Nat
      BY DEF Answer
    <3>6. \A f \in BOOLEAN : [text |-> r.text + n, sent |-> r.sent, finished |-> f] \in Answer
      BY <3>5 DEF Answer
    <3>7. (r.finished \/ last) \in BOOLEAN
      BY Zenon
    <3>8. e \in Answer
      BY <3>4, <3>6, <3>7, Zenon
    <3>9. e.text = r.text + n /\ e.sent = r.sent
      BY <3>4
    <3>10. (e.finished <=> (r.finished \/ last))
      BY <3>4
    <3>11. /\ a \in [Keys -> Answer] /\ a[k] = e
           /\ \A x \in Keys : x # k => a[x] = answers[x]
      BY <1>3, <1>4, <3>3, <3>8
    <3> QED BY <3>1, <3>9, <3>10, <3>11
  <2>5. k \notin again /\ ~In(queue, k) => answers[k].text = 0
    <3>1. k \notin again \union suppressed => ~answers[k].finished
      BY <1>1 DEF IInv, SpeakingInv, k
    <3>2. ~In(queue, k) => (answers[k].text > 0 => answers[k].finished)
      BY <1>4 DEF IInv, Relayed, AnswersInv
    <3> QED BY <1>4, <1>8, <1>10, <3>1, <3>2
  <2>6. Handed(a, q, k)
    <3>1. q = queue \/ (k \in Keys /\ q = Append(queue, k) /\ answers[k].text = 0 /\ a[k].text > 0)
      BY <1>4, <1>8, <1>10, <2>2, <2>4
    <3>2. ASSUME NEW x \in Keys
          PROVE  /\ a[x].sent = answers[x].sent /\ a[x].text >= answers[x].text
                 /\ answers[x].finished => a[x].finished
                 /\ ~In(q, x) => (a[x].text > 0 => answers[x].text > 0)
                 /\ ~In(q, x) /\ x \notin again => a[x].text = answers[x].text
      <4>1. CASE x # k
        BY <1>8, <2>4, <4>1
      <4>2. CASE x = k
        <5>1. answers[k].text = 0 => In(q, k)
          BY <1>3, <1>4, <2>2, AppendedQueue
        <5>2. answers[k].text # 0 => q = queue
          BY <2>2
        <5> QED BY <1>4, <1>8, <2>4, <2>5, <4>2, <5>1, <5>2
      <4> QED BY <4>1, <4>2
    <3> QED BY <3>1, <3>2 DEF Handed
  <2>7. /\ Kept(a, q) /\ Relayed(answers, queue)'
        /\ answers' \in [Keys -> Answer] /\ queue' \in Seq(Keys)
        /\ bubbles' \in Seq(Bubbles) /\ active' \in Keys \union {None}
        /\ \A x \in Keys :
             /\ answers'[x].text = a[x].text /\ answers'[x].finished = a[x].finished
             /\ In(queue', x) => In(queue, x) \/ (x = k /\ q # queue)
    BY <1>1, <2>3, <2>4, <2>6, RelayTakes
  <2>8. TypeOK'
    BY <1>1, <1>6, <1>7, <2>7, Typed, TypedAgain DEF IInv
  <2>9. FreshInv'
    <3>1. \A u \in Tasks, i \in 1..MaxCalls : i > calls[u] => <<u, <<"call", i>>>> # k
      BY <1>3 DEF k, Call
    <3>2. \A u \in Tasks : \A i : <<u, <<"whole", i>>>> # k
      <4> SUFFICES ASSUME NEW u \in Tasks, NEW i, <<u, <<"whole", i>>>> = k PROVE FALSE
        OBVIOUS
      <4>1. u = t
        BY <1>4
      <4> QED BY <4>1, CallKey DEF IInv, k
    <3>3. \A x \in Keys : answers[x] = Silence /\ x # k => ~a[x].finished
      BY <2>4 DEF Silence
    <3> QED BY <1>1, <2>4, <2>6, <2>7, <3>1, <3>2, <3>3, FreshStays
  <2>10. SpeakingInv'
    <3>1. ASSUME NEW u \in Tasks, Calling(u)', Call(u)' \notin again' \union suppressed'
          PROVE  ~answers'[Call(u)'].finished
      <4>1. Call(u)' = Call(u) /\ Calling(u) /\ calls[u] > 0
        BY <1>1, <1>6, <3>1 DEF Call, Calling, IInv, SpeakingInv
      <4>2. ~answers[Call(u)].finished /\ Call(u) \in Keys
        BY <1>1, <3>1, <4>1, CallKey DEF IInv, SpeakingInv
      <4>3. CASE u = t
        <5>1. ~last
          BY <1>6, <3>1, <4>3 DEF Calling
        <5> QED BY <1>4, <2>4, <2>7, <4>1, <4>2, <4>3, <5>1 DEF k
      <4>4. CASE u # t
        <5>1. Call(u) # k
          BY <4>4, CallKey DEF IInv, k
        <5> QED BY <2>4, <2>7, <4>1, <4>2, <5>1
      <4> QED BY <4>3, <4>4
    <3>2. \A x \in Keys : spoken'[x] = answers'[x].text
      BY <1>7, <1>8, <1>10, <2>4, <2>7
    <3>3. \A u \in Tasks : branch'[u] = "calling" => calls'[u] > 0
      BY <1>1, <1>6 DEF IInv, SpeakingInv
    <3> QED BY <3>1, <3>2, <3>3 DEF SpeakingInv
  <2>11. AnnouncedInv'
    <3>1. ASSUME NEW i \in 1..Len(queue') PROVE queue'[i][1] \notin taskDone
      <4>1. queue'[i] \in Keys /\ In(queue', queue'[i])
        BY <2>7 DEF In
      <4>2. In(queue, queue'[i]) => queue'[i][1] \notin taskDone
        BY DEF In, IInv, AnnouncedInv
      <4> QED BY <1>4, <1>5, <2>7, <4>1, <4>2
    <3> QED BY <1>1, <1>6, <3>1 DEF AnnouncedInv
  <2> QED BY <2>7, <2>8, <2>9, <2>10, <2>11 DEF IInv
<1> QED BY <1>9, <1>10

\* chunk() at the beginning of a tool call.
LEMMA StreamToolCallKeeps ==
  ASSUME IInv, NEW t \in Tasks, StreamToolCall(t)
  PROVE  IInv'
<1> USE DEF relay
<1> DEFINE k == Call(t)
<1>1. /\ Calling(t) /\ run = "graph" /\ branch[t] = "calling" /\ again' = again
      /\ UNCHANGED <<wholes, taskDone, branch, calls, run, spoken>>
      /\ ToolCallChunk(k)
  BY DEF StreamToolCall, Calling
<1>2. answers \in [Keys -> Answer] /\ queue \in Seq(Keys)
  BY Typed DEF IInv
<1>3. k \in Keys /\ k[1] = t
  <2>1. calls[t] > 0
    BY <1>1 DEF IInv, SpeakingInv
  <2> QED BY <2>1, CallKey DEF IInv
<1> HIDE DEF k
<1>4. suppressed' = suppressed \union {k} /\ suppressed' \subseteq Keys
  BY <1>1, <1>3, Typed DEF ToolCallChunk, IInv
<1>5. \A x \in Keys : spoken[x] = answers[x].text
  BY DEF IInv, SpeakingInv
<1>6. \A u \in Tasks : branch'[u] = "calling" => calls'[u] > 0
  BY <1>1 DEF IInv, SpeakingInv
<1>7. CASE k \in suppressed \/ answers[k].text = 0
  <2>1. UNCHANGED <<relay, bubbles>> /\ answers' = answers /\ queue' = queue /\ active' = active
    BY <1>1, <1>7 DEF ToolCallChunk
  <2>2. TypeOK'
    BY <1>1, <1>4, <2>1, Typed, TypedAgain DEF IInv
  <2>3. Relayed(answers, queue)'
    BY <1>1, <2>1, RelayRests DEF IInv
  <2>4. FreshInv'
    BY <1>1, <2>1 DEF IInv, FreshInv
  <2>5. SpeakingInv'
    <3>1. ASSUME NEW u \in Tasks, Calling(u)', Call(u)' \notin again' \union suppressed'
          PROVE  ~answers'[Call(u)'].finished
      <4>1. Call(u)' = Call(u) /\ Calling(u)
        BY <1>1, <3>1 DEF Call, Calling
      <4> QED BY <1>1, <1>4, <2>1, <3>1, <4>1 DEF IInv, SpeakingInv
    <3> QED BY <1>1, <1>5, <1>6, <2>1, <3>1 DEF SpeakingInv
  <2>6. AnnouncedInv'
    BY <1>1, <2>1 DEF IInv, AnnouncedInv
  <2> QED BY <2>2, <2>3, <2>4, <2>5, <2>6 DEF IInv
<1>8. CASE ~(k \in suppressed \/ answers[k].text = 0)
  <2>1. PICK a : a = [answers EXCEPT ![k].finished = TRUE]
    OBVIOUS
  <2>2. Advance(a, queue)
    BY <1>1, <1>8, <2>1 DEF ToolCallChunk
  <2>3. /\ a \in [Keys -> Answer]
        /\ a[k].text = answers[k].text /\ a[k].sent = answers[k].sent /\ a[k].finished
        /\ \A x \in Keys : x # k => a[x] = answers[x]
    <3>1. answers[k] \in Answer
      BY <1>2, <1>3
    <3>2. PICK e : e = [answers[k] EXCEPT !.finished = TRUE]
      OBVIOUS
    <3>3. a = [answers EXCEPT ![k] = e]
      BY <2>1, <3>2
    <3>4. e \in Answer /\ e.text = answers[k].text /\ e.sent = answers[k].sent /\ e.finished
      BY <3>1, <3>2 DEF Answer
    <3> QED BY <1>2, <1>3, <3>3, <3>4
  <2>4. \A x \in Keys : answers[x].text \in Nat
    BY <1>2 DEF Answer
  <2>5. Handed(a, queue, k)
    <3>1. \A x \in Keys : a[x].text = answers[x].text /\ a[x].sent = answers[x].sent
      BY <2>3
    <3>2. \A x \in Keys : answers[x].finished => a[x].finished
      BY <2>3
    <3> QED BY <2>4, <3>1, <3>2 DEF Handed
  <2>6. /\ Kept(a, queue) /\ Relayed(answers, queue)'
        /\ answers' \in [Keys -> Answer] /\ queue' \in Seq(Keys)
        /\ bubbles' \in Seq(Bubbles) /\ active' \in Keys \union {None}
        /\ \A x \in Keys :
             /\ answers'[x].text = a[x].text /\ answers'[x].finished = a[x].finished
             /\ In(queue', x) => In(queue, x)
    BY <1>1, <2>2, <2>3, <2>5, RelayTakes
  <2>7. TypeOK'
    BY <1>1, <1>4, <2>6, Typed, TypedAgain DEF IInv
  <2>8. FreshInv'
    <3>1. \A u \in Tasks, i \in 1..MaxCalls : i > calls[u] => <<u, <<"call", i>>>> # k
      <4>1. calls \in [Tasks -> 0..MaxCalls]
        BY Typed DEF IInv
      <4> QED BY <4>1 DEF k, Call
    <3>2. \A u \in Tasks : \A i : <<u, <<"whole", i>>>> # k
      <4> SUFFICES ASSUME NEW u \in Tasks, NEW i, <<u, <<"whole", i>>>> = k PROVE FALSE
        OBVIOUS
      <4>1. u = t
        BY <1>3
      <4> QED BY <4>1, CallKey DEF IInv, k
    <3>3. \A x \in Keys : answers[x] = Silence /\ x # k => ~a[x].finished
      BY <2>3 DEF Silence
    <3> QED BY <1>1, <2>3, <2>5, <2>6, <3>1, <3>2, <3>3, FreshStays
  <2>9. SpeakingInv'
    <3>1. ASSUME NEW u \in Tasks, Calling(u)', Call(u)' \notin again' \union suppressed'
          PROVE  ~answers'[Call(u)'].finished
      <4>1. Call(u)' = Call(u) /\ Calling(u) /\ calls[u] > 0
        BY <1>1, <1>6, <3>1 DEF Call, Calling
      <4>2. Call(u) # k /\ Call(u) \in Keys
        BY <1>4, <3>1, <4>1, CallKey DEF IInv
      <4>3. ~answers[Call(u)].finished
        BY <1>1, <1>4, <3>1, <4>1 DEF IInv, SpeakingInv
      <4> QED BY <2>3, <2>6, <4>1, <4>2, <4>3
    <3>2. \A x \in Keys : spoken'[x] = answers'[x].text
      BY <1>1, <1>5, <2>3, <2>6
    <3> QED BY <1>6, <3>1, <3>2 DEF SpeakingInv
  <2>10. AnnouncedInv'
    <3>1. ASSUME NEW i \in 1..Len(queue') PROVE queue'[i][1] \notin taskDone
      <4>1. queue'[i] \in Keys /\ In(queue', queue'[i])
        BY <2>6 DEF In
      <4>2. In(queue, queue'[i]) => queue'[i][1] \notin taskDone
        BY DEF In, IInv, AnnouncedInv
      <4> QED BY <2>6, <4>1, <4>2
    <3> QED BY <1>1, <3>1 DEF IInv, AnnouncedInv
  <2> QED BY <2>6, <2>7, <2>8, <2>9, <2>10 DEF IInv
<1> QED BY <1>7, <1>8

\* whole()
LEMMA SayWholeKeeps ==
  ASSUME IInv, NEW t \in Tasks, SayWhole(t)
  PROVE  IInv'
<1> DEFINE k == <<t, <<"whole", wholes + 1>>>>
<1>1. /\ run = "graph" /\ branch[t] = "idle" /\ again' = again
      /\ UNCHANGED <<suppressed, taskDone, branch, calls, run>>
      /\ wholes < MaxWholes /\ wholes' = wholes + 1
      /\ Whole(k) /\ spoken' = [spoken EXCEPT ![k] = 1]
  BY DEF SayWhole, Idle
<1>2. /\ answers \in [Keys -> Answer] /\ queue \in Seq(Keys) /\ spoken \in [Keys -> Nat]
      /\ calls \in [Tasks -> 0..MaxCalls] /\ wholes \in Nat /\ MaxWholes \in Nat
  BY Typed, ConstantsAssumption DEF IInv
<1>3. k \in Keys /\ k[1] = t /\ wholes + 1 \in 1..MaxWholes
  BY <1>1, <1>2, WholeKey
<1>4. answers[k] = Silence
  BY <1>2, <1>3 DEF IInv, FreshInv
<1>5. \A u \in Tasks, i \in 1..MaxWholes : i > wholes' => <<u, <<"whole", i>>>> # k
  BY <1>1, <1>2
<1>6. \A u \in Tasks : Call(u) # k
  <2> SUFFICES ASSUME NEW u \in Tasks, Call(u) = k PROVE FALSE
    OBVIOUS
  <2>1. u = t
    BY <1>3, CallKey DEF IInv
  <2> QED BY <2>1, CallKey DEF IInv
<1>7. \A u \in Tasks, i \in 1..MaxCalls : <<u, <<"call", i>>>> # k
  <2> SUFFICES ASSUME NEW u \in Tasks, NEW i \in 1..MaxCalls, <<u, <<"call", i>>>> = k
               PROVE  FALSE
    OBVIOUS
  <2>1. <<"call", i>> = <<"whole", wholes + 1>>
    OBVIOUS
  <2> QED BY <2>1
<1> HIDE DEF k
<1>8. PICK a : a = [answers EXCEPT ![k] = [text |-> 1, sent |-> 0, finished |-> TRUE]]
  OBVIOUS
<1>9. Advance(a, Append(queue, k))
  BY <1>1, <1>8 DEF Whole
<1>10. /\ a \in [Keys -> Answer]
       /\ a[k].text = 1 /\ a[k].sent = 0 /\ a[k].finished
       /\ \A x \in Keys : x # k => a[x] = answers[x]
  <2>1. [text |-> 1, sent |-> 0, finished |-> TRUE] \in Answer
    BY DEF Answer
  <2> QED BY <1>2, <1>3, <1>8, <2>1
<1>11. \A x \in Keys : answers[x].text \in Nat
  BY <1>2 DEF Answer
<1>12. Handed(a, Append(queue, k), k)
  <2>1. In(Append(queue, k), k)
    BY <1>2, <1>3, AppendedQueue
  <2>2. answers[k].text = 0 /\ answers[k].sent = 0 /\ ~answers[k].finished
    BY <1>4 DEF Silence
  <2>3. ASSUME NEW x \in Keys
        PROVE  /\ a[x].sent = answers[x].sent /\ a[x].text >= answers[x].text
               /\ answers[x].finished => a[x].finished
               /\ x # k => a[x].text = answers[x].text
    BY <1>10, <1>11, <2>2
  <2> QED BY <1>3, <1>10, <1>11, <2>1, <2>2, <2>3 DEF Handed
<1>13. /\ Kept(a, Append(queue, k)) /\ Relayed(answers, queue)'
       /\ answers' \in [Keys -> Answer] /\ queue' \in Seq(Keys)
       /\ bubbles' \in Seq(Bubbles) /\ active' \in Keys \union {None}
       /\ \A x \in Keys :
            /\ answers'[x].text = a[x].text /\ answers'[x].finished = a[x].finished
            /\ In(queue', x) => In(queue, x) \/ x = k
  BY <1>1, <1>9, <1>10, <1>12, RelayTakes
<1>14. /\ spoken' \in [Keys -> Nat]
       /\ \A x \in Keys : spoken'[x] = IF x = k THEN 1 ELSE spoken[x]
  BY <1>1, <1>2, <1>3
<1>15. TypeOK'
  BY <1>1, <1>2, <1>13, <1>14, Typed, TypedAgain DEF IInv
<1>16. FreshInv'
  <2>1. \A x \in Keys : answers[x] = Silence /\ x # k => ~a[x].finished
    BY <1>10 DEF Silence
  <2> QED BY <1>1, <1>5, <1>7, <1>10, <1>12, <1>13, <2>1, FreshStays
<1>17. SpeakingInv'
  <2>1. ASSUME NEW u \in Tasks, Calling(u)', Call(u)' \notin again' \union suppressed'
        PROVE  ~answers'[Call(u)'].finished
    <3>1. Call(u)' = Call(u) /\ Calling(u)
      BY <1>1, <2>1 DEF Call, Calling
    <3>2. calls[u] > 0
      BY <3>1 DEF IInv, SpeakingInv, Calling
    <3>3. Call(u) # k /\ Call(u) \in Keys
      BY <1>6, <3>2, CallKey DEF IInv
    <3>4. ~answers[Call(u)].finished
      BY <1>1, <2>1, <3>1 DEF IInv, SpeakingInv
    <3> QED BY <1>10, <1>13, <3>1, <3>3, <3>4
  <2>2. \A x \in Keys : spoken'[x] = answers'[x].text
    BY <1>10, <1>13, <1>14 DEF IInv, SpeakingInv
  <2>3. \A u \in Tasks : branch'[u] = "calling" => calls'[u] > 0
    BY <1>1 DEF IInv, SpeakingInv
  <2> QED BY <2>1, <2>2, <2>3 DEF SpeakingInv
<1>18. AnnouncedInv'
  <2>1. ASSUME NEW i \in 1..Len(queue') PROVE queue'[i][1] \notin taskDone
    <3>1. queue'[i] \in Keys /\ In(queue', queue'[i])
      BY <1>13 DEF In
    <3>2. In(queue, queue'[i]) => queue'[i][1] \notin taskDone
      BY DEF In, IInv, AnnouncedInv
    <3>3. t \notin taskDone
      BY <1>1 DEF IInv, AnnouncedInv
    <3> QED BY <1>3, <1>13, <3>1, <3>2, <3>3
  <2> QED BY <1>1, <2>1 DEF IInv, AnnouncedInv
<1> QED BY <1>13, <1>15, <1>16, <1>17, <1>18 DEF IInv

\* flush() lets out everything that is queued and closes only what has begun.
LEMMA FlushKeeps ==
  ASSUME IInv, Flush, UNCHANGED <<wholes, calls, again>>
  PROVE  /\ Relayed(answers, queue)' /\ FreshInv'
         /\ answers' \in [Keys -> Answer] /\ queue' = <<>>
         /\ bubbles' \in Seq(Bubbles) /\ active' \in Keys \union {None}
         /\ \A x \in Keys : answers'[x].text = answers[x].text
<1>1. PICK a : a = [k \in Keys |-> [answers[k] EXCEPT !.finished = @ \/ answers[k].text > 0]]
  OBVIOUS
<1>2. Advance(a, queue)
  BY <1>1 DEF Flush
<1>3. answers \in [Keys -> Answer] /\ queue \in Seq(Keys)
  BY Typed DEF IInv
<1>4. ASSUME NEW x \in Keys
      PROVE  /\ a[x] \in Answer /\ a[x].text = answers[x].text /\ a[x].sent = answers[x].sent
             /\ answers[x].finished => a[x].finished
             /\ answers[x].text > 0 => a[x].finished
             /\ answers[x].text = 0 /\ ~answers[x].finished => ~a[x].finished
  <2>1. PICK r \in Answer : r = answers[x]
    BY <1>3
  <2>2. a[x] = [r EXCEPT !.finished = @ \/ r.text > 0]
    BY <1>1, <2>1
  <2>3. a[x] = [text |-> r.text, sent |-> r.sent, finished |-> (r.finished \/ r.text > 0)]
    BY <2>2, Zenon DEF Answer
  <2>4. r.text \in Nat /\ r.sent \in Nat
    BY DEF Answer
  <2>5. \A f \in BOOLEAN : [text |-> r.text, sent |-> r.sent, finished |-> f] \in Answer
    BY <2>4 DEF Answer
  <2>6. PICK f \in BOOLEAN : f = (r.finished \/ r.text > 0)
    BY Zenon
  <2>7. a[x] = [text |-> r.text, sent |-> r.sent, finished |-> f]
    BY <2>3, <2>6, Zenon
  <2>8. a[x] \in Answer
    BY <2>5, <2>7
  <2>9. a[x].text = r.text /\ a[x].sent = r.sent /\ a[x].finished = f
    BY <2>7
  <2>10. (f <=> (r.finished \/ r.text > 0))
    BY <2>6, Zenon
  <2> QED BY <2>1, <2>4, <2>8, <2>9, <2>10
<1>5. a \in [Keys -> Answer]
  <2>1. a = [x \in Keys |-> a[x]]
    BY <1>1
  <2> QED BY <1>4, <2>1
<1>6. Handed(a, queue, None)
  <2>1. \A x \in Keys : answers[x].text \in Nat
    BY <1>3 DEF Answer
  <2> QED BY <1>4, <2>1 DEF Handed
<1>7. /\ Kept(a, queue) /\ Relayed(answers, queue)'
      /\ answers' \in [Keys -> Answer]
      /\ bubbles' \in Seq(Bubbles) /\ active' \in Keys \union {None}
      /\ \A x \in Keys : answers'[x].text = a[x].text
      /\ (\A x \in Keys : answers[x].text > 0 => a[x].finished) => queue' = <<>>
  BY <1>2, <1>5, <1>6, RelayTakes
<1>8. FreshInv'
  <2>1. \A x \in Keys : answers[x] = Silence /\ x # None => ~a[x].finished
    BY <1>4 DEF Silence
  <2>2. /\ \A t \in Tasks, i \in 1..MaxCalls : <<t, <<"call", i>>>> # None
        /\ \A t \in Tasks, i \in 1..MaxWholes : <<t, <<"whole", i>>>> # None
    BY NoneAssumption DEF Keys
  <2> QED BY <1>5, <1>6, <1>7, <2>1, <2>2, FreshStays
<1> QED BY <1>4, <1>7, <1>8

\* The batch has reported: what its tasks still had in the relay is out before they
\* are announced.
LEMMA MergeBatchKeeps ==
  ASSUME IInv, MergeBatch
  PROVE  IInv'
<1> USE DEF relay
<1>1. /\ run = "graph" /\ branch' = [t \in Tasks |-> "off"]
      /\ taskDone' = taskDone \union {t \in Tasks : branch[t] = "reported"}
      /\ IF \E t \in Tasks : branch[t] = "reported" THEN Flush ELSE UNCHANGED <<relay, bubbles>>
      /\ UNCHANGED <<suppressed, wholes, calls, run, spoken, again>>
  BY DEF MergeBatch, TaskDone
<1>2. branch' \in [Tasks -> Branches] /\ \A t \in Tasks : branch'[t] = "off"
  BY <1>1 DEF Branches
<1>3. taskDone' \subseteq Tasks
  BY <1>1, Typed DEF IInv
<1>4. \A x \in Keys : spoken[x] = answers[x].text
  BY DEF IInv, SpeakingInv
<1>5. /\ Relayed(answers, queue)' /\ FreshInv'
      /\ answers' \in [Keys -> Answer] /\ queue' \in Seq(Keys)
      /\ bubbles' \in Seq(Bubbles) /\ active' \in Keys \union {None}
      /\ \A x \in Keys : answers'[x].text = answers[x].text
      /\ queue' = <<>> \/ (queue' = queue /\ taskDone' = taskDone)
  <2>1. CASE \E t \in Tasks : branch[t] = "reported"
    <3>1. UNCHANGED <<wholes, calls, again>> /\ Flush
      BY <1>1, <2>1
    <3>2. <<>> \in Seq(Keys)
      OBVIOUS
    <3> QED BY <3>1, <3>2, FlushKeeps
  <2>2. CASE ~(\E t \in Tasks : branch[t] = "reported")
    <3>1. /\ UNCHANGED <<relay, bubbles>> /\ answers' = answers /\ queue' = queue
          /\ active' = active /\ bubbles' = bubbles /\ taskDone' = taskDone
      BY <1>1, <2>2
    <3>2. Relayed(answers, queue)'
      BY <1>1, <3>1, RelayRests DEF IInv
    <3>3. FreshInv'
      BY <1>1, <3>1 DEF IInv, FreshInv
    <3> QED BY <3>1, <3>2, <3>3, Typed DEF IInv
  <2> QED BY <2>1, <2>2
<1>6. TypeOK'
  BY <1>1, <1>2, <1>3, <1>5, Typed, TypedAgain DEF IInv
<1>7. SpeakingInv'
  BY <1>1, <1>2, <1>4, <1>5 DEF SpeakingInv, Calling
<1>8. AnnouncedInv'
  <2>1. \A t \in taskDone' : branch'[t] = "off"
    BY <1>2, <1>3
  <2>2. \A i \in 1..Len(queue') : queue'[i][1] \notin taskDone'
    BY <1>5 DEF IInv, AnnouncedInv
  <2> QED BY <1>1, <2>1, <2>2 DEF AnnouncedInv
<1> QED BY <1>5, <1>6, <1>7, <1>8 DEF IInv

LEMMA GraphEndsKeeps ==
  ASSUME IInv, GraphEnds
  PROVE  IInv'
<1>1. /\ run' = "settling" /\ Flush
      /\ UNCHANGED <<suppressed, wholes, taskDone, branch, calls, spoken, again>>
  BY DEF GraphEnds
<1>2. /\ Relayed(answers, queue)' /\ FreshInv'
      /\ answers' \in [Keys -> Answer] /\ queue' = <<>> /\ queue' \in Seq(Keys)
      /\ bubbles' \in Seq(Bubbles) /\ active' \in Keys \union {None}
      /\ \A x \in Keys : answers'[x].text = answers[x].text
  BY <1>1, FlushKeeps
<1>3. TypeOK'
  BY <1>1, <1>2, Typed, TypedAgain DEF IInv
<1>4. SpeakingInv'
  BY <1>1, <1>2 DEF IInv, SpeakingInv, Calling
<1>5. AnnouncedInv'
  BY <1>1, <1>2 DEF IInv, AnnouncedInv
<1> QED BY <1>2, <1>3, <1>4, <1>5 DEF IInv

-----------------------------------------------------------------------------
LEMMA Starts ==
  ASSUME Init
  PROVE  IInv
<1>1. answers \in [Keys -> Answer]
  BY DEF Init, Silence, Answer
<1>2. /\ answers \in [Keys -> [text : Nat, sent : Nat, finished : BOOLEAN]]
      /\ queue = <<>> /\ bubbles = <<>>
  BY <1>1 DEF Init, Answer
<1>3. /\ branch \in [Tasks -> Branches] /\ calls \in [Tasks -> 0..MaxCalls]
      /\ spoken \in [Keys -> Nat] /\ wholes \in 0..MaxWholes
  BY ConstantsAssumption DEF Init, Branches
<1>4. TypeOK
  BY <1>2, <1>3 DEF Init, TypeOK
<1>5. Relayed(answers, queue)
  <2>1. \A k \in Keys : answers[k] = Silence
    BY DEF Init
  <2>2. \A k \in Keys : answers[k].sent = 0 /\ answers[k].text = 0
    BY <2>1 DEF Silence
  <2> QED BY <1>2, <2>2 DEF Init, Relayed, QueueInv, BubblesInv, AnswersInv, In
<1>6. FreshInv
  <2>1. \A t \in Tasks, i \in 1..MaxCalls : <<t, <<"call", i>>>> \in Keys
    BY DEF Keys
  <2>2. \A t \in Tasks, i \in 1..MaxWholes : <<t, <<"whole", i>>>> \in Keys
    BY DEF Keys
  <2> QED BY <2>1, <2>2 DEF Init, FreshInv
<1>7. SpeakingInv
  <2>1. \A k \in Keys : spoken[k] = answers[k].text
    BY DEF Init, Silence
  <2> QED BY <2>1 DEF Init, SpeakingInv, Calling
<1>8. AnnouncedInv
  BY DEF Init, AnnouncedInv
<1> QED BY <1>4, <1>5, <1>6, <1>7, <1>8 DEF IInv

LEMMA StepKeeps ==
  ASSUME IInv, [Next]_vars
  PROVE  IInv'
<1>1. CASE UNCHANGED vars
  <2>1. /\ UNCHANGED <<relay, bubbles>> /\ again' = again
        /\ UNCHANGED <<answers, queue, active, suppressed, wholes, taskDone, branch>>
        /\ UNCHANGED <<calls, run, spoken>>
    BY <1>1 DEF vars, relay
  <2>2. TypeOK'
    BY <2>1, Typed, TypedAgain DEF IInv
  <2>3. Relayed(answers, queue)'
    BY <2>1, RelayRests DEF IInv
  <2>4. FreshInv' /\ AnnouncedInv'
    BY <2>1 DEF IInv, FreshInv, AnnouncedInv
  <2>5. SpeakingInv'
    BY <2>1 DEF IInv, SpeakingInv, Calling, Call
  <2> QED BY <2>2, <2>3, <2>4, <2>5 DEF IInv
<1>2. CASE Dispatch
  BY <1>2, DispatchKeeps
<1>3. ASSUME NEW t \in Tasks,
             \/ BeginCall(t) \/ CallAgain(t) \/ StreamText(t) \/ StreamToolCall(t)
             \/ CallReturns(t) \/ SayWhole(t) \/ EndBranch(t)
      PROVE  IInv'
  BY <1>3, BeginCallKeeps, CallAgainKeeps, StreamTextKeeps, StreamToolCallKeeps,
     CallReturnsKeeps, SayWholeKeeps, EndBranchKeeps
<1>4. CASE MergeBatch
  BY <1>4, MergeBatchKeeps
<1>5. CASE GraphEnds
  BY <1>5, GraphEndsKeeps
<1>6. CASE PublishDone \/ RunFails
  BY <1>6, RunEndKeeps
<1> QED BY <1>1, <1>2, <1>3, <1>4, <1>5, <1>6 DEF Next

\* The inductive invariant of the relay, the client's bubbles and the branches that
\* write at the same time.
THEOREM InvariantHolds == Spec => []IInv
<1>1. Init => IInv
  BY Starts
<1>2. IInv /\ [Next]_vars => IInv'
  BY StepKeeps
<1> QED BY <1>1, <1>2, PTL DEF Spec

\* The state of the relay keeps its types.
THEOREM TypeCorrect == Spec => []TypeOK
<1>1. IInv => TypeOK
  BY DEF IInv
<1> QED BY <1>1, InvariantHolds, PTL

\* _advance lets one answer through at a time: however the branches' pieces interleave,
\* a bubble of the client holds the text of one answer, and an answer has one bubble.
THEOREM BubblesAreWhole == Spec => []OneAnswerPerBubble
<1>1. IInv => OneAnswerPerBubble
  BY DEF IInv, Relayed, BubblesInv, OneAnswerPerBubble
<1> QED BY <1>1, InvariantHolds, PTL

\* _publish_task_done and the end of the run flush first: what was spoken for a task is
\* on the client's screen when the task, or the run, is announced as done.
THEOREM NothingStaysBehind == Spec => []NothingHeldBack
<1>1. IInv => NothingHeldBack
  <2> SUFFICES ASSUME IInv, NEW k \in Keys \ again, k[1] \in taskDone \/ run = "done"
               PROVE  IsShown(k, spoken[k])
    BY DEF NothingHeldBack
  <2>1. ~In(queue, k)
    BY DEF IInv, AnnouncedInv, In
  <2>2. spoken[k] = answers[k].text /\ answers[k].sent = answers[k].text
    BY <2>1 DEF IInv, SpeakingInv, Relayed, AnswersInv
  <2>3. answers[k].sent \in Nat
    BY Typed DEF IInv, Answer
  <2>4. \A i \in 1..Len(bubbles) :
          bubbles[i].key = k => bubbles[i].got = spoken[k] /\ spoken[k] > 0
    BY <2>2 DEF IInv, Relayed, BubblesInv
  <2>5. spoken[k] > 0 => Shown(k)
    BY <2>2 DEF IInv, Relayed, AnswersInv
  <2> QED BY <2>2, <2>3, <2>4, <2>5 DEF IsShown, Shown
<1> QED BY <1>1, InvariantHolds, PTL
=============================================================================
