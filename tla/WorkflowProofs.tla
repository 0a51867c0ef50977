---------------------------- MODULE WorkflowProofs ----------------------------
(***************************************************************************)
(* Theorems of Workflow, and of its composition with the endpoints in      *)
(* Conversations: for any plans the validators let through, any number of  *)
(* shelved ones and any sequence of turns, cards and deaths, no plan is    *)
(* lost, copied or stranded, no task is started before its dependencies or *)
(* reopened after its end, and no turn ends without a word.  Requests that *)
(* interleave may lose or strand a plan and leave the rest of this intact; *)
(* no turn starts over a card it could have seen, no thread is deleted     *)
(* under a run it could have seen, and the panel is true after every run.  *)
(***************************************************************************)
EXTENDS Conversations, FiniteSetTheorems, WellFoundedInduction, TLAPS

-----------------------------------------------------------------------------
\* What is invariant about a plan, wherever it is kept.  The tasks can be put in
\* an order: whichever of them are left, one depends on none of these.
Orderly(deps) ==
    /\ \A t \in DOMAIN deps : deps[t] \subseteq DOMAIN deps
    /\ \A left \in SUBSET DOMAIN deps : left # {} =>
        \E t \in left : deps[t] \intersect left = {}

\* What has begun, or was ever asked about, has its dependencies completed.
Earned(p) ==
    \A t \in Tasks(p) :
        p.status[t] \in {"running", "waiting_input", "completed"} \/ t \in p.drafts
            => p.deps[t] \subseteq Having(p, {"completed"})

\* Nothing is queued behind a dead task.
Unblocked(p) ==
    \A t \in Tasks(p) :
        p.status[t] = "pending" => p.deps[t] \intersect Having(p, Dead) = {}

Drafted(p) ==
    /\ Having(p, {"waiting_input"}) \subseteq p.drafts
    /\ p.drafts \subseteq Having(p, {"waiting_input", "running", "pending"})

Sound(p) == IsPlan(p) /\ Orderly(p.deps) /\ Earned(p) /\ Unblocked(p) /\ Drafted(p)

Still(p) == Having(p, {"running"}) = {}

\* A plan nobody would look at has nothing left to do.
WorkedOff(p) == ~Open(p) => Having(p, {"pending", "running"}) = {}

PlansInv ==
    /\ Sound(current)
    /\ \A p \in shelved : Sound(p) /\ Open(p) /\ Still(p)
    /\ EachPlanOnce

\* What each node finds: nothing else is under way when tasks are selected, and
\* while a batch runs the running tasks are its branches.
NodeInv ==
    /\ node = "end" => ~live /\ said
    /\ node = "plan" => Tasks(current) = {}
    /\ node \in {"plan", "select_task", "end"} => Still(current)
    /\ node \in {"select_task", "domain_task", "apply_domain_result"} => ~Open(current)
    /\ node = "select_task" => said \/ Runnable(current) # {}
    /\ node \in {"domain_task", "apply_domain_result"} =>
        InBatch # {} /\ InBatch = Having(current, {"running"})
    /\ node = "apply_domain_result" => \A t \in InBatch : branch[t] = "done"

\* A result is there when its branch is done, only an answered card rejects, and
\* only in its node is a branch at work.
Reports == [status : Outcomes, to : Domains \union {None}]
BatchInv ==
    \A t \in Positions :
        /\ branch[t] \in {"running", "card", "answered"} => node = "domain_task"
        /\ branch[t] = "answered" => said
        /\ branch[t] = "done" =>
            result[t] \in Reports /\ (result[t].status = "rejected" => said)

\* Between turns, and before a turn has touched it, the current plan is worked
\* off unless a run has died on it.
RestInv ==
    /\ node \in {"end", "understand"} => current.id \in broken \/ WorkedOff(current)
    /\ ~live /\ node \notin {"end", "understand"} => current.id \in broken \/ CardPending

Typed ==
    /\ live \in BOOLEAN /\ said \in BOOLEAN /\ parallel \in Modes
    /\ node \in Nodes
    /\ branch \in [Positions -> {"none", "running", "card", "answered", "done"}]
    /\ result \in [Positions -> {None} \union Reports]
    /\ broken \subseteq PlanIds

\* What the endpoints cannot break, however their requests interleave, and what a
\* conversation at rest adds when each turn waits for the cards that are shown.
Core == Typed /\ PlansInv /\ NodeInv /\ BatchInv
IInv == Core /\ RestInv

-----------------------------------------------------------------------------
(* Plans as records *)

LEMMA PositionsAreNumbers == Positions \subseteq Nat \ {0}
<1>1. \A deps \in Shapes : deps \in Seq(SUBSET Nat)
  BY ConstantsAssumption
<1>2. \A deps \in Shapes : DOMAIN deps \subseteq Nat \ {0}
  BY <1>1
<1> QED BY <1>2 DEF Positions

LEMMA PlanParts ==
  ASSUME NEW p, IsPlan(p)
  PROVE  /\ p \in PlansOver(p.deps)
         /\ p.deps \in Shapes \union {<<>>}
         /\ Tasks(p) = DOMAIN p.deps
         /\ p.id \in PlanIds
         /\ p.status \in [Tasks(p) -> Statuses]
         /\ p.domain \in [Tasks(p) -> Domains]
         /\ p.handedOff \in [Tasks(p) -> Seq(Domains)]
         /\ p.drafts \subseteq Tasks(p)
<1>1. PICK deps \in Shapes \union {<<>>} : p \in PlansOver(deps)
  BY DEF IsPlan
<1>2. p.deps = deps /\ p.status \in [DOMAIN deps -> Statuses]
  BY <1>1 DEF PlansOver
<1>3. Tasks(p) = DOMAIN deps
  BY <1>2 DEF Tasks
<1> QED BY <1>1, <1>2, <1>3 DEF PlansOver

LEMMA TasksArePositions == ASSUME NEW p, IsPlan(p) PROVE Tasks(p) \subseteq Positions
<1>1. Tasks(p) = DOMAIN p.deps /\ p.deps \in Shapes \union {<<>>}
  BY PlanParts
<1>2. DOMAIN <<>> = {}
  OBVIOUS
<1> QED BY <1>1, <1>2 DEF Positions

\* Other statuses for the tasks of a plan.
LEMMA Restated ==
  ASSUME NEW p, IsPlan(p), NEW status \in [Tasks(p) -> Statuses]
  PROVE  LET q == [p EXCEPT !.status = status]
         IN  /\ IsPlan(q) /\ q.id = p.id /\ q.deps = p.deps /\ q.drafts = p.drafts
             /\ q.status = status /\ Tasks(q) = Tasks(p)
             /\ q.domain = p.domain /\ q.handedOff = p.handedOff
<1> DEFINE q == [p EXCEPT !.status = status]
<1>1. p \in PlansOver(p.deps) /\ p.deps \in Shapes \union {<<>>} /\ Tasks(p) = DOMAIN p.deps
  BY PlanParts
<1>2. q \in PlansOver(p.deps)
  BY <1>1 DEF PlansOver
<1>3. /\ q.id = p.id /\ q.deps = p.deps /\ q.drafts = p.drafts
      /\ q.status = status /\ q.domain = p.domain /\ q.handedOff = p.handedOff
  BY <1>1 DEF PlansOver
<1>4. IsPlan(q)
  BY <1>1, <1>2 DEF IsPlan
<1> HIDE DEF q
<1>5. Tasks(q) = Tasks(p)
  BY <1>3 DEF Tasks
<1> QED BY <1>3, <1>4, <1>5 DEF q

LEMMA SetStatusFacts ==
  ASSUME NEW p, IsPlan(p), NEW chosen, NEW value \in Statuses
  PROVE  LET q == SetStatus(p, chosen, value)
         IN  /\ IsPlan(q) /\ q.id = p.id /\ q.deps = p.deps /\ q.drafts = p.drafts
             /\ Tasks(q) = Tasks(p)
             /\ \A t \in Tasks(p) :
                  q.status[t] = IF t \in chosen THEN value ELSE p.status[t]
<1> DEFINE status == [t \in Tasks(p) |-> IF t \in chosen THEN value ELSE p.status[t]]
<1>1. p.status \in [Tasks(p) -> Statuses]
  BY PlanParts
<1>2. status \in [Tasks(p) -> Statuses]
  BY <1>1
<1>3. SetStatus(p, chosen, value) = [p EXCEPT !.status = status]
  BY DEF SetStatus
<1>4. \A t \in Tasks(p) : status[t] = IF t \in chosen THEN value ELSE p.status[t]
  OBVIOUS
<1> HIDE DEF status
<1> QED BY <1>2, <1>3, <1>4, Restated

LEMMA RecoveredFacts ==
  ASSUME NEW p, IsPlan(p)
  PROVE  LET q == Recovered(p)
         IN  /\ IsPlan(q) /\ q.id = p.id /\ q.deps = p.deps /\ q.drafts = p.drafts
             /\ Tasks(q) = Tasks(p)
             /\ \A t \in Tasks(p) :
                  q.status[t] = IF p.status[t] = "running"
                                THEN IF t \in p.drafts THEN "waiting_input" ELSE "pending"
                                ELSE p.status[t]
<1> DEFINE status == [t \in Tasks(p) |->
                        IF p.status[t] = "running"
                        THEN IF t \in p.drafts THEN "waiting_input" ELSE "pending"
                        ELSE p.status[t]]
<1>1. p.status \in [Tasks(p) -> Statuses]
  BY PlanParts
<1>2. status \in [Tasks(p) -> Statuses]
  BY <1>1 DEF Statuses
<1>3. Recovered(p) = [p EXCEPT !.status = status]
  BY DEF Recovered
<1>4. \A t \in Tasks(p) :
        status[t] = IF p.status[t] = "running"
                    THEN IF t \in p.drafts THEN "waiting_input" ELSE "pending"
                    ELSE p.status[t]
  OBVIOUS
<1> HIDE DEF status
<1> QED BY <1>2, <1>3, <1>4, Restated


-----------------------------------------------------------------------------
(* Each operation keeps a plan sound and what has ended in it as it is *)

Ended == {"completed", "rejected", "failed"}
EndedKept(p, q) ==
    \A t \in Tasks(p) :
        p.status[t] \in Ended => t \in DOMAIN q.status /\ q.status[t] = p.status[t]

LEMMA RecoveredIsSound ==
  ASSUME NEW p, Sound(p)
  PROVE  /\ Sound(Recovered(p)) /\ Still(Recovered(p)) /\ EndedKept(p, Recovered(p))
         /\ Open(p) => Open(Recovered(p))
         /\ WorkedOff(p) => WorkedOff(Recovered(p))
<1> DEFINE q == Recovered(p)
<1>1. /\ IsPlan(q) /\ q.id = p.id /\ q.deps = p.deps /\ q.drafts = p.drafts
      /\ Tasks(q) = Tasks(p)
      /\ \A t \in Tasks(p) :
           q.status[t] = IF p.status[t] = "running"
                         THEN IF t \in p.drafts THEN "waiting_input" ELSE "pending"
                         ELSE p.status[t]
  BY RecoveredFacts DEF Sound
<1> HIDE DEF q
<1>2. /\ Having(q, {"completed"}) = Having(p, {"completed"})
      /\ Having(q, Dead) = Having(p, Dead)
      /\ Having(q, {"running"}) = {}
  BY <1>1 DEF Having, Dead
<1>3. Earned(q)
  BY <1>1, <1>2 DEF Sound, Earned
<1>4. Unblocked(q)
  <2> SUFFICES ASSUME NEW t \in Tasks(q), q.status[t] = "pending"
               PROVE  q.deps[t] \intersect Having(q, Dead) = {}
    BY DEF Unblocked
  <2>1. CASE p.status[t] = "running"
    <3>1. p.deps[t] \subseteq Having(p, {"completed"})
      BY <1>1, <2>1 DEF Sound, Earned
    <3> QED BY <1>1, <1>2, <3>1 DEF Having, Dead
  <2>2. CASE p.status[t] # "running"
    BY <1>1, <1>2, <2>2 DEF Sound, Unblocked
  <2> QED BY <2>1, <2>2
<1>5. Drafted(q)
  BY <1>1 DEF Sound, Drafted, Having
<1>6. Orderly(q.deps)
  BY <1>1 DEF Sound
<1>7. EndedKept(p, q)
  BY <1>1 DEF EndedKept, Ended, Tasks
<1>8. /\ Open(p) => Open(q)
      /\ WorkedOff(p) => WorkedOff(q)
  BY <1>1 DEF Open, WorkedOff, Having
<1> QED BY <1>1, <1>2, <1>3, <1>4, <1>5, <1>6, <1>7, <1>8 DEF Sound, Still, q

LEMMA RequeuedIsSound ==
  ASSUME NEW p, Sound(p), Still(p), Open(p)
  PROVE  /\ Sound(Requeued(p)) /\ Still(Requeued(p)) /\ ~Open(Requeued(p))
         /\ EndedKept(p, Requeued(p)) /\ Requeued(p).id = p.id /\ Requeued(p).deps = p.deps
         /\ Runnable(Requeued(p)) # {}
<1> DEFINE q == Requeued(p)
<1>1. /\ IsPlan(q) /\ q.id = p.id /\ q.deps = p.deps /\ q.drafts = p.drafts
      /\ Tasks(q) = Tasks(p)
      /\ \A t \in Tasks(p) :
           q.status[t] = IF t \in Having(p, {"waiting_input"}) THEN "pending" ELSE p.status[t]
  BY SetStatusFacts DEF Sound, Requeued, Statuses
<1> HIDE DEF q
<1>2. /\ Having(q, {"completed"}) = Having(p, {"completed"})
      /\ Having(q, Dead) = Having(p, Dead)
      /\ Having(q, {"running"}) = Having(p, {"running"})
      /\ Having(q, {"waiting_input"}) = {}
  BY <1>1 DEF Having, Dead
<1>3. Earned(q)
  BY <1>1, <1>2 DEF Sound, Earned
<1>4. Unblocked(q)
  <2> SUFFICES ASSUME NEW t \in Tasks(q), q.status[t] = "pending"
               PROVE  q.deps[t] \intersect Having(q, Dead) = {}
    BY DEF Unblocked
  <2>1. CASE t \in Having(p, {"waiting_input"})
    <3>1. p.deps[t] \subseteq Having(p, {"completed"})
      BY <1>1, <2>1 DEF Sound, Earned, Having
    <3> QED BY <1>1, <1>2, <3>1 DEF Having, Dead
  <2>2. CASE t \notin Having(p, {"waiting_input"})
    BY <1>1, <1>2, <2>2 DEF Sound, Unblocked
  <2> QED BY <2>1, <2>2
<1>5. Drafted(q)
  BY <1>1 DEF Sound, Drafted, Having
<1>6. Orderly(q.deps)
  BY <1>1 DEF Sound
<1>7. EndedKept(p, q)
  BY <1>1 DEF EndedKept, Ended, Having, Tasks
<1>8. PICK t \in Having(p, {"waiting_input"}) : TRUE
  BY DEF Open
<1>9. t \in Runnable(q)
  <2>1. p.deps[t] \subseteq Having(p, {"completed"})
    BY <1>8 DEF Sound, Earned, Having
  <2> QED BY <1>1, <1>2, <1>8, <2>1 DEF Runnable, Having
<1> QED BY <1>1, <1>2, <1>3, <1>4, <1>5, <1>6, <1>7, <1>9 DEF Sound, Still, Open, q

-----------------------------------------------------------------------------
(* Rejecting what can no longer be done *)

\* Blocked is closed under its rule, and no task whose dependencies are completed
\* is in it.
LEMMA BlockedIsClosed ==
  ASSUME NEW p
  PROVE  /\ Blocked(p) \subseteq Having(p, {"pending"})
         /\ \A t \in Having(p, {"pending"}) :
              p.deps[t] \intersect (Having(p, Dead) \union Blocked(p)) # {} => t \in Blocked(p)
<1> DEFINE queued == Having(p, {"pending"})
           Closed(S) == \A t \in queued :
                          p.deps[t] \intersect (Having(p, Dead) \union S) # {} => t \in S
<1>1. Blocked(p) = {t \in queued : \A S \in SUBSET queued : Closed(S) => t \in S}
  BY DEF Blocked
<1>2. ASSUME NEW t \in queued,
             p.deps[t] \intersect (Having(p, Dead) \union Blocked(p)) # {},
             NEW S \in SUBSET queued, Closed(S)
      PROVE  t \in S
  <2>1. Blocked(p) \subseteq S
    BY <1>1, <1>2
  <2>2. p.deps[t] \intersect (Having(p, Dead) \union S) # {}
    BY <1>2, <2>1
  <2> QED BY <1>2, <2>2
<1> QED BY <1>1, <1>2

LEMMA BlockedNeedsADeadOne ==
  ASSUME NEW p, NEW t \in Blocked(p)
  PROVE  ~(p.deps[t] \subseteq Having(p, {"completed"}))
<1> DEFINE queued == Having(p, {"pending"})
           Closed(S) == \A u \in queued :
                          p.deps[u] \intersect (Having(p, Dead) \union S) # {} => u \in S
           Waiting == {u \in queued : ~(p.deps[u] \subseteq Having(p, {"completed"}))}
<1>1. \A S \in SUBSET queued : Closed(S) => t \in S
  BY DEF Blocked
<1>2. Closed(Waiting)
  <2> SUFFICES ASSUME NEW u \in queued,
                      p.deps[u] \intersect (Having(p, Dead) \union Waiting) # {}
               PROVE  ~(p.deps[u] \subseteq Having(p, {"completed"}))
    OBVIOUS
  <2>1. /\ Having(p, Dead) \intersect Having(p, {"completed"}) = {}
        /\ queued \intersect Having(p, {"completed"}) = {}
    BY DEF Having, Dead
  <2> QED BY <2>1
<1>3. Waiting \in SUBSET queued
  OBVIOUS
<1>4. t \in Waiting
  BY <1>1, <1>2, <1>3
<1> QED BY <1>4

\* The queue is right again after _reject_blocked_tasks, whatever has died.
LEMMA RejectBlockedIsSound ==
  ASSUME NEW p, IsPlan(p), Earned(p)
  PROVE  LET q == RejectBlocked(p)
         IN  /\ IsPlan(q) /\ Earned(q) /\ Unblocked(q)
             /\ q.id = p.id /\ q.deps = p.deps /\ q.drafts = p.drafts
             /\ Tasks(q) = Tasks(p)
             /\ EndedKept(p, q)
             /\ \A t \in p.drafts : q.status[t] = p.status[t]
             /\ Having(q, {"waiting_input"}) = Having(p, {"waiting_input"})
             /\ Having(q, {"running"}) = Having(p, {"running"})
             /\ Having(q, {"completed"}) = Having(p, {"completed"})
             /\ Having(q, {"pending"}) \subseteq Having(p, {"pending"})
             /\ Runnable(p) \subseteq Runnable(q)
<1> DEFINE q == RejectBlocked(p)
<1>1. /\ IsPlan(q) /\ q.id = p.id /\ q.deps = p.deps /\ q.drafts = p.drafts
      /\ Tasks(q) = Tasks(p)
      /\ \A t \in Tasks(p) :
           q.status[t] = IF t \in Blocked(p) THEN "rejected" ELSE p.status[t]
  BY SetStatusFacts DEF RejectBlocked, Statuses
<1> HIDE DEF q
<1>2. \A t \in Blocked(p) : t \in Tasks(p) /\ p.status[t] = "pending"
  BY BlockedIsClosed DEF Having
<1>3. /\ Having(q, {"waiting_input"}) = Having(p, {"waiting_input"})
      /\ Having(q, {"running"}) = Having(p, {"running"})
      /\ Having(q, {"completed"}) = Having(p, {"completed"})
      /\ Having(q, {"pending"}) = Having(p, {"pending"}) \ Blocked(p)
      /\ Having(q, Dead) = Having(p, Dead) \union Blocked(p)
  BY <1>1, <1>2 DEF Having, Dead
<1>4. Earned(q)
  BY <1>1, <1>2, <1>3 DEF Earned
<1>5. Unblocked(q)
  <2> SUFFICES ASSUME NEW t \in Tasks(q), q.status[t] = "pending"
               PROVE  q.deps[t] \intersect Having(q, Dead) = {}
    BY DEF Unblocked
  <2>1. t \in Having(p, {"pending"}) /\ t \notin Blocked(p)
    BY <1>1 DEF Having
  <2> QED BY <1>1, <1>3, <2>1, BlockedIsClosed
<1>6. \A t \in p.drafts : q.status[t] = p.status[t]
  <2> SUFFICES ASSUME NEW t \in p.drafts PROVE q.status[t] = p.status[t]
    OBVIOUS
  <2>1. t \in Tasks(p)
    BY PlanParts
  <2>2. p.deps[t] \subseteq Having(p, {"completed"})
    BY <2>1 DEF Earned
  <2>3. t \notin Blocked(p)
    BY <2>2, BlockedNeedsADeadOne
  <2> QED BY <1>1, <2>1, <2>3
<1>7. EndedKept(p, q)
  BY <1>1, <1>2 DEF EndedKept, Ended, Tasks
<1>8. Runnable(p) \subseteq Runnable(q)
  BY <1>1, <1>3, BlockedNeedsADeadOne DEF Runnable
<1> QED BY <1>1, <1>3, <1>4, <1>5, <1>6, <1>7, <1>8 DEF Sound, q


LEMMA Redrafted ==
  ASSUME NEW p, IsPlan(p), NEW drafts \in SUBSET Tasks(p)
  PROVE  LET q == [p EXCEPT !.drafts = drafts]
         IN  /\ IsPlan(q) /\ q.id = p.id /\ q.deps = p.deps /\ q.drafts = drafts
             /\ q.status = p.status /\ Tasks(q) = Tasks(p)
<1> DEFINE q == [p EXCEPT !.drafts = drafts]
<1>1. p \in PlansOver(p.deps) /\ p.deps \in Shapes \union {<<>>} /\ Tasks(p) = DOMAIN p.deps
  BY PlanParts
<1>2. q \in PlansOver(p.deps)
  BY <1>1 DEF PlansOver
<1>3. q.id = p.id /\ q.deps = p.deps /\ q.drafts = drafts /\ q.status = p.status
  BY <1>1 DEF PlansOver
<1>4. IsPlan(q)
  BY <1>1, <1>2 DEF IsPlan
<1> HIDE DEF q
<1>5. Tasks(q) = Tasks(p)
  BY <1>3 DEF Tasks
<1> QED BY <1>3, <1>4, <1>5 DEF q

\* _cancel: what depends on the cancelled tasks goes with them, and their drafts; a
\* shelved plan that keeps anything keeps a task that waits.
LEMMA AbandonedIsSound ==
  ASSUME NEW p, Sound(p), Still(p), NEW chosen \in SUBSET Having(p, Unfinished)
  PROVE  LET r == Abandoned(p, chosen)
         IN  /\ Sound(r) /\ Still(r) /\ r.id = p.id /\ EndedKept(p, r)
             /\ p.id # current.id /\ Having(r, Unfinished) # {} => Open(r)
<1> DEFINE given == SetStatus(p, chosen, "rejected")
           q == RejectBlocked(given)
           whole == p.id # current.id /\ ~Open(q)
           rest == IF whole THEN SetStatus(q, Having(p, Unfinished), "rejected") ELSE q
           r == [rest EXCEPT !.drafts = @ \ Having(rest, {"rejected"})]
<1>1. /\ IsPlan(given) /\ given.id = p.id /\ given.deps = p.deps
      /\ given.drafts = p.drafts /\ Tasks(given) = Tasks(p)
      /\ \A t \in Tasks(p) :
           given.status[t] = IF t \in chosen THEN "rejected" ELSE p.status[t]
  BY SetStatusFacts DEF Sound, Statuses
<1>2. r = Abandoned(p, chosen)
  BY DEF Abandoned
<1> HIDE DEF given
<1>3. \A t \in chosen : t \in Tasks(p) /\ p.status[t] \in Unfinished
  BY DEF Having
<1>4. p.status \in [Tasks(p) -> Statuses] /\ p.drafts \subseteq Tasks(p)
  BY PlanParts DEF Sound
<1>5. Earned(given)
  <2>1. Having(given, {"completed"}) = Having(p, {"completed"})
    BY <1>1, <1>3 DEF Having, Unfinished
  <2> QED BY <1>1, <2>1 DEF Sound, Earned
<1>6. /\ IsPlan(q) /\ Earned(q) /\ Unblocked(q)
      /\ q.id = p.id /\ q.deps = p.deps /\ q.drafts = p.drafts /\ Tasks(q) = Tasks(p)
      /\ EndedKept(given, q)
      /\ \A t \in p.drafts : q.status[t] = given.status[t]
      /\ Having(q, {"waiting_input"}) = Having(given, {"waiting_input"})
      /\ Having(q, {"running"}) = Having(given, {"running"})
      /\ Having(q, {"completed"}) = Having(given, {"completed"})
      /\ Having(q, {"pending"}) \subseteq Having(given, {"pending"})
  BY <1>1, <1>5, RejectBlockedIsSound
<1> HIDE DEF q
<1>7. Having(q, {"running"}) = {} /\ Having(q, Unfinished) \subseteq Having(p, Unfinished)
  BY <1>1, <1>6 DEF Sound, Still, Having, Unfinished
<1>8. /\ IsPlan(rest) /\ rest.id = p.id /\ rest.deps = p.deps
      /\ rest.drafts = p.drafts /\ Tasks(rest) = Tasks(p)
      /\ \A t \in Tasks(p) :
           rest.status[t] = IF whole /\ t \in Having(p, Unfinished) THEN "rejected"
                            ELSE q.status[t]
  <2>1. CASE whole
    BY <1>6, <2>1, SetStatusFacts DEF Statuses
  <2>2. CASE ~whole
    BY <1>6, <2>2
  <2> QED BY <2>1, <2>2
<1> HIDE DEF rest, whole
<1>9. /\ IsPlan(r) /\ r.id = p.id /\ r.deps = p.deps
      /\ r.drafts = p.drafts \ Having(rest, {"rejected"})
      /\ r.status = rest.status /\ Tasks(r) = Tasks(p)
  <2>1. p.drafts \ Having(rest, {"rejected"}) \in SUBSET Tasks(rest)
    BY <1>4, <1>8
  <2>2. r = [rest EXCEPT !.drafts = p.drafts \ Having(rest, {"rejected"})]
    BY <1>8 DEF IsPlan, PlansOver
  <2> QED BY <1>8, <2>1, <2>2, Redrafted
<1> HIDE DEF r
<1>10. q.status \in [Tasks(p) -> Statuses]
  BY <1>6, PlanParts
<1>11. /\ Having(r, {"completed"}) = Having(q, {"completed"})
       /\ Having(r, {"running"}) = {}
       /\ Having(r, {"pending"}) \subseteq Having(q, {"pending"})
       /\ ~whole => r.status = q.status
       /\ whole => Having(r, Unfinished) = {}
  <2>1. \A t \in Tasks(p) :
          r.status[t] = IF whole /\ t \in Having(p, Unfinished) THEN "rejected" ELSE q.status[t]
    BY <1>8, <1>9
  <2>2. \A t \in Having(p, Unfinished) : q.status[t] # "completed"
    BY <1>1, <1>3, <1>6 DEF Having, Unfinished
  <2>3. ~whole => rest = q
    BY DEF rest
  <2> QED BY <1>6, <1>7, <1>9, <2>1, <2>2, <2>3 DEF Having, Unfinished
<1>12. Earned(r)
  BY <1>6, <1>8, <1>9, <1>11 DEF Earned, Having
<1>13. Unblocked(r)
  <2>1. CASE whole
    BY <1>9, <1>11, <2>1 DEF Unblocked, Having, Unfinished
  <2>2. CASE ~whole
    BY <1>6, <1>9, <1>11, <2>2 DEF Unblocked, Having
  <2> QED BY <2>1, <2>2
<1>14. Drafted(r)
  <2>1. \A t \in Tasks(p) : t \in p.drafts =>
          /\ p.status[t] \in {"waiting_input", "pending"}
          /\ r.status[t] = "rejected" \/ r.status[t] = p.status[t]
    <3> SUFFICES ASSUME NEW t \in Tasks(p), t \in p.drafts
                 PROVE  /\ p.status[t] \in {"waiting_input", "pending"}
                        /\ r.status[t] = "rejected" \/ r.status[t] = p.status[t]
      OBVIOUS
    <3>1. p.status[t] \in {"waiting_input", "pending"}
      BY DEF Sound, Drafted, Still, Having
    <3>2. q.status[t] = IF t \in chosen THEN "rejected" ELSE p.status[t]
      BY <1>1, <1>6
    <3> QED BY <1>8, <1>9, <3>1, <3>2
  <2>2. \A t \in Tasks(p) : r.status[t] = "waiting_input" => t \in p.drafts
    <3> SUFFICES ASSUME NEW t \in Tasks(p), r.status[t] = "waiting_input"
                 PROVE  t \in p.drafts
      OBVIOUS
    <3>1. q.status[t] = "waiting_input"
      BY <1>8, <1>9
    <3>2. given.status[t] = "waiting_input"
      BY <1>1, <1>6, <3>1 DEF Having
    <3>3. p.status[t] = "waiting_input"
      BY <1>1, <3>2
    <3> QED BY <3>3 DEF Sound, Drafted, Having
  <2>3. \A t \in Tasks(p) :
          t \in r.drafts <=> t \in p.drafts /\ r.status[t] # "rejected"
    BY <1>8, <1>9 DEF Having
  <2>4. r.drafts \subseteq Tasks(p)
    BY <1>4, <1>9
  <2> QED BY <1>9, <2>1, <2>2, <2>3, <2>4 DEF Drafted, Having
<1>15. EndedKept(p, r)
  <2> SUFFICES ASSUME NEW t \in Tasks(p), p.status[t] \in Ended
               PROVE  t \in DOMAIN r.status /\ r.status[t] = p.status[t]
    BY DEF EndedKept
  <2>1. t \notin Having(p, Unfinished)
    BY DEF Having, Unfinished, Ended
  <2>2. given.status[t] = p.status[t]
    BY <1>1, <2>1
  <2>3. q.status[t] = p.status[t]
    BY <1>1, <1>6, <2>2 DEF EndedKept
  <2> QED BY <1>8, <1>9, <2>1, <2>3 DEF Tasks
<1>16. p.id # current.id /\ Having(r, Unfinished) # {} => Open(r)
  BY <1>9, <1>11, <1>6 DEF whole, Open, Having
<1> QED BY <1>2, <1>9, <1>11, <1>12, <1>13, <1>14, <1>15, <1>16 DEF Sound, Still


-----------------------------------------------------------------------------
(* The results of a batch *)

LEMMA StatusOfResult ==
  ASSUME Typed, NEW p, IsPlan(p), NEW t \in Positions, result[t] \in Reports
  PROVE  /\ StatusOf(p, t) \in {"pending", "waiting_input", "completed", "rejected", "failed"}
         /\ StatusOf(p, t) = "waiting_input" <=> result[t].status = "waiting_input"
         /\ StatusOf(p, t) = "rejected" => result[t].status = "rejected"
         /\ result[t].status = "handed_off" /\ StatusOf(p, t) = "pending"
              => result[t].to \in Domains
<1> QED BY DEF Reports, StatusOf, HandoffRefused, Outcomes

\* The plan with the results in it, before what is blocked is rejected.
LEMMA MergingFacts ==
  ASSUME Typed, NEW p, IsPlan(p), InBatch \subseteq Tasks(p),
         \A t \in InBatch : result[t] \in Reports
  PROVE  \E given :
           /\ Merged(p) = RejectBlocked(given)
           /\ IsPlan(given) /\ given.id = p.id /\ given.deps = p.deps
           /\ Tasks(given) = Tasks(p)
           /\ \A t \in Tasks(p) :
                given.status[t] = IF t \in InBatch THEN StatusOf(p, t) ELSE p.status[t]
           /\ given.drafts = (p.drafts \ InBatch)
                \union {t \in InBatch : result[t].status = "waiting_input"}
<1> DEFINE rerouted == {t \in InBatch :
                          result[t].status = "handed_off" /\ StatusOf(p, t) = "pending"}
           asking == {t \in InBatch : result[t].status = "waiting_input"}
           status == [t \in Tasks(p) |-> IF t \in InBatch THEN StatusOf(p, t) ELSE p.status[t]]
           domain == [t \in Tasks(p) |-> IF t \in rerouted THEN result[t].to ELSE p.domain[t]]
           handedOff == [t \in Tasks(p) |->
              IF t \in rerouted THEN Append(p.handedOff[t], p.domain[t]) ELSE p.handedOff[t]]
           drafts == (p.drafts \ InBatch) \union asking
           given == [p EXCEPT !.status = status, !.domain = domain,
                              !.handedOff = handedOff, !.drafts = drafts]
<1>1. /\ p.status \in [Tasks(p) -> Statuses] /\ p.domain \in [Tasks(p) -> Domains]
      /\ p.handedOff \in [Tasks(p) -> Seq(Domains)] /\ p.drafts \subseteq Tasks(p)
  BY PlanParts
<1>2. \A t \in InBatch : t \in Positions /\ result[t] \in Reports
  BY DEF InBatch
<1>3. status \in [Tasks(p) -> Statuses]
  <2>1. \A t \in InBatch : StatusOf(p, t) \in Statuses
    BY <1>2, StatusOfResult DEF Statuses
  <2> QED BY <1>1, <2>1
<1>4. domain \in [Tasks(p) -> Domains]
  <2>1. \A t \in rerouted : result[t].to \in Domains
    BY <1>2, StatusOfResult
  <2> HIDE DEF rerouted
  <2> QED BY <1>1, <2>1
<1>5. handedOff \in [Tasks(p) -> Seq(Domains)]
  <2> SUFFICES ASSUME NEW t \in Tasks(p)
               PROVE  (IF t \in rerouted THEN Append(p.handedOff[t], p.domain[t])
                       ELSE p.handedOff[t]) \in Seq(Domains)
    OBVIOUS
  <2>1. p.handedOff[t] \in Seq(Domains) /\ p.domain[t] \in Domains
    BY <1>1
  <2> HIDE DEF rerouted
  <2> QED BY <2>1
<1>6. drafts \in SUBSET Tasks(p)
  BY <1>1
<1>7. Merged(p) = RejectBlocked(given)
  BY DEF Merged
<1>8. \A t \in Tasks(p) : status[t] = IF t \in InBatch THEN StatusOf(p, t) ELSE p.status[t]
  OBVIOUS
<1>9. drafts = (p.drafts \ InBatch) \union asking
  OBVIOUS
<1> HIDE DEF status, domain, handedOff, drafts
<1>10. p \in PlansOver(p.deps) /\ p.deps \in Shapes \union {<<>>} /\ Tasks(p) = DOMAIN p.deps
  BY PlanParts
<1>11. given \in PlansOver(p.deps)
  BY <1>3, <1>4, <1>5, <1>6, <1>10 DEF PlansOver
<1>12. /\ given.id = p.id /\ given.deps = p.deps
       /\ given.drafts = drafts /\ given.status = status
  BY <1>10 DEF PlansOver
<1> HIDE DEF given
<1>13. IsPlan(given)
  BY <1>10, <1>11 DEF IsPlan
<1>14. Tasks(given) = Tasks(p)
  BY <1>3, <1>12 DEF Tasks
<1> QED BY <1>7, <1>8, <1>9, <1>12, <1>13, <1>14


LEMMA MergedIsSound ==
  ASSUME Typed, NEW p, Sound(p), ~Open(p), InBatch = Having(p, {"running"}),
         \A t \in InBatch : result[t] \in Reports
  PROVE  LET q == Merged(p)
         IN  /\ Sound(q) /\ Still(q) /\ q.id = p.id /\ q.deps = p.deps /\ EndedKept(p, q)
             /\ Open(q) => \E t \in InBatch : StatusOf(p, t) = "waiting_input"
             /\ \A t \in InBatch : StatusOf(p, t) = "pending" => t \in Runnable(q)
<1>1. PICK given :
        /\ Merged(p) = RejectBlocked(given)
        /\ IsPlan(given) /\ given.id = p.id /\ given.deps = p.deps
        /\ Tasks(given) = Tasks(p)
        /\ \A t \in Tasks(p) :
             given.status[t] = IF t \in InBatch THEN StatusOf(p, t) ELSE p.status[t]
        /\ given.drafts = (p.drafts \ InBatch)
             \union {t \in InBatch : result[t].status = "waiting_input"}
  BY MergingFacts DEF Sound, Having
<1>2. \A t \in InBatch :
        /\ t \in Tasks(p) /\ p.status[t] = "running"
        /\ p.deps[t] \subseteq Having(p, {"completed"})
        /\ StatusOf(p, t) \in {"pending", "waiting_input", "completed", "rejected", "failed"}
        /\ StatusOf(p, t) = "waiting_input" <=> result[t].status = "waiting_input"
  <2> SUFFICES ASSUME NEW t \in InBatch
               PROVE
        /\ t \in Tasks(p) /\ p.status[t] = "running"
        /\ p.deps[t] \subseteq Having(p, {"completed"})
        /\ StatusOf(p, t) \in {"pending", "waiting_input", "completed", "rejected", "failed"}
        /\ StatusOf(p, t) = "waiting_input" <=> result[t].status = "waiting_input"
    OBVIOUS
  <2>1. t \in Tasks(p) /\ p.status[t] = "running"
    BY DEF Having
  <2>2. p.deps[t] \subseteq Having(p, {"completed"})
    BY <2>1 DEF Sound, Earned
  <2>3. t \in Positions
    BY DEF InBatch
  <2> QED BY <2>1, <2>2, <2>3, StatusOfResult DEF Sound
<1>3. \A t \in Tasks(p) : t \notin InBatch =>
        p.status[t] # "running" /\ p.status[t] # "waiting_input"
  BY DEF Having, Open
<1>4. Having(p, {"completed"}) \subseteq Having(given, {"completed"})
  BY <1>1, <1>2 DEF Having
<1>5. Earned(given)
  <2> SUFFICES ASSUME NEW t \in Tasks(p),
                      \/ given.status[t] \in {"running", "waiting_input", "completed"}
                      \/ t \in given.drafts
               PROVE  p.deps[t] \subseteq Having(p, {"completed"})
    BY <1>1, <1>4 DEF Earned
  <2>1. CASE t \in InBatch
    BY <1>2, <2>1
  <2>2. CASE t \notin InBatch
    <3>1. p.status[t] \in {"running", "waiting_input", "completed"} \/ t \in p.drafts
      BY <1>1, <2>2
    <3> QED BY <3>1 DEF Sound, Earned
  <2> QED BY <2>1, <2>2
<1> DEFINE q == RejectBlocked(given)
<1>6. /\ IsPlan(q) /\ Earned(q) /\ Unblocked(q)
      /\ q.id = p.id /\ q.deps = p.deps /\ q.drafts = given.drafts /\ Tasks(q) = Tasks(p)
      /\ EndedKept(given, q)
      /\ \A t \in given.drafts : q.status[t] = given.status[t]
      /\ Having(q, {"waiting_input"}) = Having(given, {"waiting_input"})
      /\ Having(q, {"running"}) = Having(given, {"running"})
      /\ Runnable(given) \subseteq Runnable(q)
  BY <1>1, <1>5, RejectBlockedIsSound
<1> HIDE DEF q
<1>7. Having(given, {"running"}) = {}
  BY <1>1, <1>2, <1>3 DEF Having
<1>8. Having(given, {"waiting_input"}) = {t \in InBatch : StatusOf(p, t) = "waiting_input"}
  BY <1>1, <1>2, <1>3 DEF Having
<1>9. Drafted(q)
  <2>1. Having(q, {"waiting_input"}) \subseteq q.drafts
    BY <1>1, <1>2, <1>6, <1>8
  <2>2. \A t \in given.drafts :
          t \in Tasks(p) /\ given.status[t] \in {"waiting_input", "running", "pending"}
    <3> SUFFICES ASSUME NEW t \in given.drafts
                 PROVE  t \in Tasks(p) /\ given.status[t] \in {"waiting_input", "running", "pending"}
      OBVIOUS
    <3>1. CASE t \in InBatch
      BY <1>1, <1>2, <3>1
    <3>2. CASE t \notin InBatch
      BY <1>1, <3>2 DEF Sound, Drafted, Having
    <3> QED BY <3>1, <3>2
  <2> QED BY <1>6, <2>1, <2>2 DEF Drafted, Having
<1>10. EndedKept(p, q)
  <2> SUFFICES ASSUME NEW t \in Tasks(p), p.status[t] \in Ended
               PROVE  t \in DOMAIN q.status /\ q.status[t] = p.status[t]
    BY DEF EndedKept
  <2>1. given.status[t] = p.status[t]
    BY <1>1, <1>2 DEF Ended
  <2> QED BY <1>1, <1>6, <2>1 DEF EndedKept
<1>11. \A t \in InBatch : StatusOf(p, t) = "pending" => t \in Runnable(given)
  BY <1>1, <1>2, <1>4 DEF Runnable, Having
<1>12. Open(q) => \E t \in InBatch : StatusOf(p, t) = "waiting_input"
  BY <1>6, <1>8 DEF Open
<1>13. Orderly(q.deps)
  BY <1>6 DEF Sound
<1> QED BY <1>1, <1>6, <1>7, <1>9, <1>10, <1>11, <1>12, <1>13 DEF Sound, Still, q

-----------------------------------------------------------------------------
(* New plans, and the selection of a batch *)

LEMMA EmptyPlanIsSound ==
  ASSUME NEW id \in PlanIds
  PROVE  LET p == EmptyPlan(id)
         IN  /\ Sound(p) /\ p.id = id /\ Tasks(p) = {} /\ p.drafts = {}
             /\ Still(p) /\ ~Open(p) /\ WorkedOff(p)
<1> DEFINE p == EmptyPlan(id)
<1>1. /\ p.id = id /\ p.deps = <<>> /\ p.status = <<>> /\ p.domain = <<>>
      /\ p.handedOff = <<>> /\ p.drafts = {}
  BY DEF EmptyPlan
<1>2. DOMAIN <<>> = {} /\ \A S : <<>> \in [{} -> S]
  OBVIOUS
<1>3. p \in PlansOver(<<>>)
  BY <1>2 DEF EmptyPlan, PlansOver
<1> HIDE DEF p
<1>4. Tasks(p) = {}
  BY <1>1, <1>2 DEF Tasks
<1>5. IsPlan(p)
  BY <1>3 DEF IsPlan
<1>6. \A set : Having(p, set) = {}
  BY <1>4 DEF Having
<1> QED BY <1>1, <1>2, <1>4, <1>5, <1>6
        DEF Sound, Orderly, Earned, Unblocked, Drafted, Still, Open, WorkedOff, p

LEMMA LeastPosition ==
  ASSUME NEW S, S \subseteq Nat, S # {}
  PROVE  \E t \in S : \A u \in S : t <= u
<1>1. \E t \in S : \A u \in S : ~(<<u, t>> \in OpToRel(<, Nat))
  BY NatLessThanWellFounded, WFMin
<1>2. \A t, u \in Nat : u < t => <<u, t>> \in OpToRel(<, Nat)
  BY Zenon DEF OpToRel
<1>3. \E t \in S : \A u \in S : ~(u < t)
  BY <1>1, <1>2, Zenon
<1> QED BY <1>3


\* validate_dependencies accepts exactly the plans its message describes: those whose
\* tasks "can be put in an order" (models.py 92).
THEOREM PlansCanBeDone ==
  ASSUME NEW deps
  PROVE  IsTaskPlan(deps) <=> deps # <<>> /\ Orderly(deps)
<1> DEFINE Closed(S) == \A i \in DOMAIN deps : deps[i] \subseteq S => i \in S
<1>1. ASSUME IsTaskPlan(deps) PROVE Orderly(deps)
  <2>1. \A t \in DOMAIN deps : deps[t] \subseteq DOMAIN deps
    BY <1>1 DEF IsTaskPlan
  <2>2. ASSUME NEW left \in SUBSET DOMAIN deps, left # {},
               \A t \in left : deps[t] \intersect left # {}
        PROVE  FALSE
    <3>1. Closed(DOMAIN deps \ left)
      <4>1. ASSUME NEW i \in DOMAIN deps, deps[i] \subseteq DOMAIN deps \ left
            PROVE  i \in DOMAIN deps \ left
        BY <2>2, <4>1
      <4> QED BY <4>1
    <3>2. \A i \in Finishable(deps) : \A S \in SUBSET DOMAIN deps : Closed(S) => i \in S
      BY DEF Finishable
    <3>3. \A i \in DOMAIN deps : i \in DOMAIN deps \ left
      <4>1. DOMAIN deps \ left \in SUBSET DOMAIN deps
        OBVIOUS
      <4>2. \A i \in Finishable(deps) : i \in DOMAIN deps \ left
        BY <3>1, <3>2, <4>1, Zenon
      <4> QED BY <1>1, <4>2 DEF IsTaskPlan
    <3> QED BY <2>2, <3>3
  <2> QED BY <2>1, <2>2 DEF Orderly
<1>2. ASSUME deps # <<>>, Orderly(deps) PROVE IsTaskPlan(deps)
  <2>1. \A t \in DOMAIN deps : deps[t] \subseteq DOMAIN deps
    BY <1>2 DEF Orderly
  <2>2. ASSUME NEW t \in DOMAIN deps PROVE t \notin deps[t]
    <3>1. {t} \in SUBSET DOMAIN deps /\ {t} # {}
      OBVIOUS
    <3>2. PICK u \in {t} : deps[u] \intersect {t} = {}
      BY <1>2, <3>1 DEF Orderly
    <3> QED BY <3>2
  <2>3. ASSUME NEW S \in SUBSET DOMAIN deps, Closed(S), NEW i \in DOMAIN deps, i \notin S
        PROVE  FALSE
    <3>1. DOMAIN deps \ S \in SUBSET DOMAIN deps /\ DOMAIN deps \ S # {}
      BY <2>3
    <3>2. PICK t \in DOMAIN deps \ S : deps[t] \intersect (DOMAIN deps \ S) = {}
      BY <1>2, <3>1 DEF Orderly
    <3>3. deps[t] \subseteq S
      BY <2>1, <3>2
    <3> QED BY <2>3, <3>2, <3>3
  <2>4. Finishable(deps) = DOMAIN deps
    BY <2>3 DEF Finishable
  <2> QED BY <1>2, <2>1, <2>2, <2>4 DEF IsTaskPlan
<1> QED BY <1>1, <1>2 DEF IsTaskPlan

LEMMA FirstIsEarlier ==
  ASSUME NEW n \in Nat, NEW outlines \in Outlines(n, Domains), NeedsAreEarlier(outlines),
         NEW i \in 1..n, NEW d \in outlines[i].needs
  PROVE  FirstOf(outlines, d) \in 1..(i - 1)
<1>1. DOMAIN outlines = 1..n
  BY DEF Outlines
<1>2. PICK j \in 1..(i - 1) : outlines[j].domain = d
  BY <1>1 DEF NeedsAreEarlier
<1> DEFINE Named == {k \in 1..n : outlines[k].domain = d}
<1>3. \E k \in Named : \A m \in Named : k <= m
  <2>1. Named \subseteq Nat /\ j \in Named
    BY <1>2
  <2> HIDE DEF Named
  <2> QED BY <2>1, LeastPosition
<1>4. \E k \in DOMAIN outlines :
        /\ outlines[k].domain = d
        /\ \A m \in 1..(k - 1) : outlines[m].domain # d
  BY <1>1, <1>3
<1> DEFINE f == FirstOf(outlines, d)
<1>5. /\ f \in 1..n /\ outlines[f].domain = d
      /\ \A m \in 1..(f - 1) : outlines[m].domain # d
  BY <1>1, <1>4 DEF FirstOf
<1> HIDE DEF f
<1>6. f <= j
  BY <1>2, <1>5
<1> QED BY <1>2, <1>5, <1>6 DEF f

LEMMA OutlinesAreOrderly ==
  ASSUME NEW n \in Nat, NEW outlines \in Outlines(n, Domains), NeedsAreEarlier(outlines)
  PROVE  Orderly(Dependencies(outlines))
<1> DEFINE deps == Dependencies(outlines)
<1>1. DOMAIN outlines = 1..n
  BY DEF Outlines
<1>2. DOMAIN deps = 1..n /\ \A i \in 1..n : deps[i] \subseteq 1..(i - 1)
  BY <1>1, FirstIsEarlier DEF Dependencies
<1> HIDE DEF deps
<1>3. ASSUME NEW left \in SUBSET DOMAIN deps, left # {}
      PROVE  \E t \in left : deps[t] \intersect left = {}
  <2>1. left \subseteq Nat
    BY <1>2
  <2>2. PICK t \in left : \A u \in left : t <= u
    BY <1>3, <2>1, LeastPosition
  <2>3. t \in 1..n /\ deps[t] \subseteq 1..(t - 1)
    BY <1>2
  <2> QED BY <2>1, <2>2, <2>3
<1>4. \A t \in DOMAIN deps : deps[t] \subseteq DOMAIN deps
  BY <1>2
<1> QED BY <1>3, <1>4 DEF Orderly, deps

\* plan_from_outlines needs no such check: from outlines "a cycle cannot come about"
\* (models.py 112).
THEOREM OutlinesCanBeDone ==
  ASSUME NEW n \in Nat \ {0}, NEW outlines \in Outlines(n, Domains), NeedsAreEarlier(outlines)
  PROVE  IsTaskPlan(Dependencies(outlines))
<1>1. Orderly(Dependencies(outlines))
  BY OutlinesAreOrderly
<1>2. 1 \in DOMAIN Dependencies(outlines)
  BY DEF Dependencies, Outlines
<1>3. Dependencies(outlines) # <<>>
  BY <1>2
<1> QED BY <1>1, <1>3, PlansCanBeDone

LEMMA PlannedPlans ==
  ASSUME NEW p \in Planned
  PROVE  /\ p.deps \in Shapes /\ Orderly(p.deps)
         /\ p.domain \in [DOMAIN p.deps -> Domains]
<1>1. PICK deps \in Shapes : p \in OutlinedPlans(deps) \union PlannerPlans(deps)
  BY DEF Planned
<1>2. CASE p \in OutlinedPlans(deps)
  <2>1. PICK o \in Outlines(Len(deps), Domains) :
             /\ NeedsAreEarlier(o) /\ Dependencies(o) = deps
             /\ p = [deps |-> deps, domain |-> [t \in DOMAIN o |-> o[t].domain]]
    BY <1>2 DEF OutlinedPlans
  <2>2. Len(deps) \in Nat
    BY ConstantsAssumption
  <2>3. Orderly(deps)
    BY <2>1, <2>2, OutlinesAreOrderly
  <2>4. p.deps = deps /\ p.domain = [t \in DOMAIN o |-> o[t].domain]
    BY <2>1
  <2>5. DOMAIN o = DOMAIN deps
    BY <2>1 DEF Dependencies
  <2>6. \A t \in DOMAIN o : o[t].domain \in Domains
    BY DEF Outlines
  <2> QED BY <2>3, <2>4, <2>5, <2>6
<1>3. CASE p \in PlannerPlans(deps)
  BY <1>3, PlansCanBeDone DEF PlannerPlans
<1> QED BY <1>1, <1>2, <1>3

LEMMA SelectionIsMade ==
  ASSUME NEW p, IsPlan(p), Runnable(p) # {}
  PROVE  Selected(p) # {}
<1>1. Runnable(p) \subseteq Nat
  BY TasksArePositions, PositionsAreNumbers DEF Runnable, Having
<1>2. PICK t \in Runnable(p) : \A u \in Runnable(p) : t <= u
  BY <1>1, LeastPosition
<1> QED BY <1>2 DEF Selected

LEMMA SelectedIsSound ==
  ASSUME NEW p, Sound(p), Still(p), ~Open(p)
  PROVE  LET q == SetStatus(p, Selected(p), "running")
         IN  /\ Sound(q) /\ ~Open(q) /\ q.id = p.id /\ q.deps = p.deps /\ EndedKept(p, q)
             /\ Having(q, {"running"}) = Selected(p)
<1> DEFINE q == SetStatus(p, Selected(p), "running")
<1>1. /\ IsPlan(q) /\ q.id = p.id /\ q.deps = p.deps /\ q.drafts = p.drafts
      /\ Tasks(q) = Tasks(p)
      /\ \A t \in Tasks(p) :
           q.status[t] = IF t \in Selected(p) THEN "running" ELSE p.status[t]
  BY SetStatusFacts DEF Sound, Statuses
<1> HIDE DEF q
<1>2. \A t \in Selected(p) :
        /\ t \in Tasks(p) /\ p.status[t] = "pending"
        /\ p.deps[t] \subseteq Having(p, {"completed"})
  BY DEF Selected, Runnable, Having
<1>3. /\ Having(q, {"running"}) = Selected(p)
      /\ Having(q, {"completed"}) = Having(p, {"completed"})
      /\ Having(q, {"waiting_input"}) = Having(p, {"waiting_input"})
      /\ Having(q, Dead) = Having(p, Dead)
  BY <1>1, <1>2 DEF Still, Having, Dead
<1>4. Earned(q)
  BY <1>1, <1>2, <1>3 DEF Sound, Earned
<1>5. Unblocked(q)
  BY <1>1, <1>3 DEF Sound, Unblocked
<1>6. Drafted(q)
  BY <1>1, <1>2, <1>3 DEF Sound, Drafted, Having
<1>7. EndedKept(p, q)
  BY <1>1, <1>2 DEF EndedKept, Ended, Tasks
<1>8. ~Open(q) /\ Orderly(q.deps)
  BY <1>1, <1>3 DEF Sound, Open
<1> QED BY <1>1, <1>3, <1>4, <1>5, <1>6, <1>7, <1>8 DEF Sound, q

\* When nothing waits and nothing can be run, nothing is left: the last queued task
\* in the order of the plan would have all its dependencies completed.
LEMMA NothingRunnable ==
  ASSUME NEW p, Sound(p), Still(p), ~Open(p), Runnable(p) = {}
  PROVE  WorkedOff(p)
<1> DEFINE left == Having(p, {"pending"})
<1>1. p.status \in [Tasks(p) -> Statuses] /\ Tasks(p) = DOMAIN p.deps
  BY PlanParts DEF Sound
<1>2. ASSUME left # {} PROVE FALSE
  <2>1. left \in SUBSET DOMAIN p.deps
    BY <1>1 DEF Having
  <2>2. PICK t \in left : p.deps[t] \intersect left = {}
    BY <1>2, <2>1 DEF Sound, Orderly
  <2>3. t \in Tasks(p) /\ p.status[t] = "pending"
    BY DEF Having
  <2>4. p.deps[t] \subseteq Tasks(p) /\ p.deps[t] \intersect Having(p, Dead) = {}
    BY <1>1, <2>3 DEF Sound, Orderly, Unblocked
  <2>5. \A u \in p.deps[t] : p.status[u] = "completed"
    <3> SUFFICES ASSUME NEW u \in p.deps[t] PROVE p.status[u] = "completed"
      OBVIOUS
    <3>1. u \in Tasks(p) /\ p.status[u] \in Statuses
      BY <1>1, <2>4
    <3>2. p.status[u] \notin {"pending", "rejected", "failed", "running", "waiting_input"}
      BY <2>2, <2>4, <3>1 DEF Having, Dead, Still, Open
    <3> QED BY <3>1, <3>2 DEF Statuses
  <2> QED BY <2>3, <2>4, <2>5 DEF Runnable, Having
<1>3. Having(p, {"pending", "running"}) = {}
  BY <1>2 DEF Still, Having
<1> QED BY <1>3 DEF WorkedOff


-----------------------------------------------------------------------------
(* The steps.  Each keeps the invariant, and what has ended in a plan stays as *)
(* it ended: a plan after the step descends from the plan of its name before.  *)

EndedStays == \A p \in Plans, q \in Plans' : p.id = q.id => EndedKept(p, q)

Descends(q) ==
    \/ \E p \in Plans : p.id = q.id /\ EndedKept(p, q)
    \/ \A p \in Plans : p.id # q.id

LEMMA Descent ==
  ASSUME PlansInv, \A q \in Plans' : Descends(q)
  PROVE  EndedStays
<1> SUFFICES ASSUME NEW p \in Plans, NEW q \in Plans', p.id = q.id
             PROVE  EndedKept(p, q)
  BY DEF EndedStays
<1>1. PICK x \in Plans : x.id = q.id /\ EndedKept(x, q)
  BY DEF Descends
<1>2. x = p
  BY <1>1 DEF PlansInv, EachPlanOnce, Plans
<1> QED BY <1>1, <1>2

\* What each step is shown to do.
StepKeeps == Core' /\ EndedStays /\ (RestInv => RestInv')

LEMMA KeptByItself == \A p : EndedKept(p, p)
  BY DEF EndedKept, Tasks

LEMMA KeptThrough ==
  ASSUME NEW p, NEW q, NEW r, EndedKept(p, q), EndedKept(q, r)
  PROVE  EndedKept(p, r)
  BY DEF EndedKept, Tasks

\* Most steps replace the current plan and leave the shelf alone.
LEMMA CurrentReplaced ==
  ASSUME PlansInv, Sound(current'), current'.id = current.id,
         EndedKept(current, current'), shelved' = shelved
  PROVE  PlansInv' /\ EndedStays
<1>1. PlansInv'
  BY DEF PlansInv, EachPlanOnce
<1>2. \A q \in Plans' : Descends(q)
  BY KeptByItself DEF Plans, Descends
<1> QED BY <1>1, <1>2, Descent

LEMMA PlansUntouched ==
  ASSUME PlansInv, UNCHANGED <<current, shelved>>
  PROVE  PlansInv' /\ EndedStays
  BY CurrentReplaced, KeptByItself DEF PlansInv

LEMMA NewInputTyped ==
  ASSUME Typed, NewInput
  PROVE  Typed' /\ \A t \in Positions : branch'[t] = "none" /\ result'[t] = None
  BY DEF Typed, NewInput, Nodes

LEMMA NewInputStep == ASSUME Core, NewInput PROVE Core' /\ EndedStays
<1>1. Typed' /\ \A t \in Positions : branch'[t] = "none" /\ result'[t] = None
  BY NewInputTyped DEF Core
<1>2. PlansInv' /\ EndedStays
  BY PlansUntouched DEF Core, NewInput
<1>3. NodeInv'
  BY DEF NodeInv, NewInput
<1>4. BatchInv'
  BY <1>1 DEF BatchInv
<1> QED BY <1>1, <1>2, <1>3, <1>4 DEF Core

LEMMA StartTurnStep == ASSUME Core, StartTurn PROVE StepKeeps
<1>1. RestInv => current.id \in broken \/ WorkedOff(current)
  BY DEF RestInv, StartTurn
<1>2. RestInv => RestInv'
  BY <1>1 DEF RestInv, StartTurn, NewInput
<1> QED BY <1>2, NewInputStep DEF StartTurn, StepKeeps

LEMMA ConfirmStep == ASSUME Core, Confirm PROVE StepKeeps
<1>1. PICK t \in Positions : FirstCard(t) /\ branch' = [branch EXCEPT ![t] = "answered"]
  BY DEF Confirm
<1>2. node = "domain_task" /\ branch[t] = "card"
  BY <1>1 DEF FirstCard, CardShown
<1>3. Typed'
  BY DEF Core, Typed, Confirm
<1>4. PlansInv' /\ EndedStays
  BY PlansUntouched DEF Core, Confirm
<1>5. InBatch' = InBatch
  BY <1>1, <1>2 DEF Core, Typed, InBatch
<1>6. NodeInv'
  BY <1>2, <1>5 DEF Core, NodeInv, Confirm
<1>7. BatchInv'
  BY <1>1, <1>2 DEF Core, Typed, BatchInv, Confirm
<1>8. RestInv => RestInv'
  BY <1>2 DEF RestInv, Confirm
<1> QED BY <1>3, <1>4, <1>6, <1>7, <1>8 DEF Core, StepKeeps

LEMMA RunDiesStep == ASSUME Core, RunDies PROVE StepKeeps
<1>1. Typed'
  <2>1. current.id \in PlanIds
    BY PlanParts DEF Core, PlansInv, Sound
  <2> QED BY <2>1 DEF Core, Typed, RunDies
<1>2. PlansInv' /\ EndedStays
  BY PlansUntouched DEF Core, RunDies
<1>3. /\ \A t \in Positions : branch'[t] = IF branch[t] = "answered" THEN "card" ELSE branch[t]
      /\ InBatch' = InBatch
  BY DEF Core, Typed, RunDies, InBatch
<1>4. NodeInv'
  BY <1>3 DEF Core, NodeInv, RunDies, InBatch
<1>5. BatchInv'
  BY <1>3 DEF Core, BatchInv, RunDies
<1>6. RestInv => RestInv'
  BY DEF Core, NodeInv, RestInv, RunDies
<1> QED BY <1>1, <1>2, <1>4, <1>5, <1>6 DEF Core, StepKeeps


-----------------------------------------------------------------------------
(* understand *)

LEMMA NowFacts ==
  ASSUME PlansInv
  PROVE  /\ Sound(Now) /\ Still(Now) /\ Now.id = current.id /\ EndedKept(current, Now)
         /\ WorkedOff(current) => WorkedOff(Now)
  BY RecoveredIsSound, RecoveredFacts DEF PlansInv, Sound, Now

LEMMA TargetFacts ==
  ASSUME PlansInv, NEW id, NEW p \in Target(id)
  PROVE  /\ Sound(p) /\ Still(p) /\ Open(p)
         /\ \/ p \in shelved /\ p.id # current.id
            \/ p = Now /\ p.id = current.id
<1>1. p \in shelved \/ (p = Now /\ Open(Now))
  BY DEF Target
<1> QED BY <1>1, NowFacts DEF PlansInv, EachPlanOnce

\* A reply that changes nothing but the recovered statuses.
LEMMA QuietReply ==
  ASSUME Core, Understanding, Replied, said' = TRUE, current' = Now,
         UNCHANGED <<shelved, broken, parallel>>
  PROVE  StepKeeps
<1>1. /\ Sound(Now) /\ Still(Now) /\ Now.id = current.id /\ EndedKept(current, Now)
      /\ WorkedOff(current) => WorkedOff(Now)
  BY NowFacts DEF Core
<1>2. Typed'
  BY DEF Core, Typed, Understanding, Replied, batchVars, Nodes
<1>3. PlansInv' /\ EndedStays
  BY <1>1, CurrentReplaced DEF Core
<1>4. NodeInv'
  BY <1>1 DEF NodeInv, Replied
<1>5. BatchInv'
  BY DEF Core, BatchInv, Understanding, batchVars
<1>6. RestInv => RestInv'
  BY <1>1 DEF Core, RestInv, Understanding, Replied
<1> QED BY <1>2, <1>3, <1>4, <1>5, <1>6 DEF Core, StepKeeps

\* The shelf after a plan has changed places with the current one, or given way.
LEMMA ResumeStep ==
  ASSUME Core, NEW id, Resume(id), UNCHANGED parallel
  PROVE  StepKeeps
<1>1. PICK p \in Target(id) :
        /\ current' = Requeued(p)
        /\ shelved' = IF p.id = current.id THEN shelved
                      ELSE IF Open(Now) THEN Without(p.id) \union {Now}
                      ELSE Without(p.id)
        /\ broken' = broken \ {p.id}
  BY DEF Resume
<1>2. /\ Sound(p) /\ Still(p) /\ Open(p)
      /\ \/ p \in shelved /\ p.id # current.id
         \/ p = Now /\ p.id = current.id
  BY TargetFacts DEF Core
<1>3. /\ Sound(current') /\ Still(current') /\ ~Open(current')
      /\ EndedKept(p, current') /\ current'.id = p.id /\ Runnable(current') # {}
  BY <1>1, <1>2, RequeuedIsSound
<1>4. /\ Sound(Now) /\ Still(Now) /\ Now.id = current.id /\ EndedKept(current, Now)
  BY NowFacts DEF Core
<1>5. Typed'
  BY <1>1 DEF Core, Typed, Resume, Understanding, batchVars, Nodes
<1>6. PlansInv' /\ EndedStays
  <2>1. CASE p.id = current.id
    <3>1. p = Now /\ shelved' = shelved
      BY <1>1, <1>2, <2>1
    <3>2. EndedKept(current, current')
      BY <1>3, <1>4, <3>1, KeptThrough
    <3> QED BY <1>3, <2>1, <3>1, <3>2, CurrentReplaced DEF Core
  <2>2. CASE p.id # current.id
    <3>1. p \in shelved
      BY <1>2, <2>2
    <3>2. \A q \in shelved' :
            (q \in shelved /\ q.id # p.id) \/ (q = Now /\ Open(Now))
      BY <1>1, <2>2 DEF Without
    <3>3. PlansInv'
      <4>1. \A q \in shelved' : Sound(q) /\ Open(q) /\ Still(q)
        BY <1>4, <3>2 DEF Core, PlansInv
      <4>2. \A q \in shelved' : q.id # current'.id
        BY <1>3, <1>4, <2>2, <3>2
      <4>3. \A q, r \in shelved' : q.id = r.id => q = r
        BY <1>4, <3>2 DEF Core, PlansInv, EachPlanOnce
      <4> QED BY <1>3, <4>1, <4>2, <4>3 DEF PlansInv, EachPlanOnce
    <3>4. \A q \in Plans' : Descends(q)
      BY <1>3, <1>4, <3>1, <3>2, KeptByItself DEF Plans, Descends
    <3> QED BY <3>3, <3>4, Descent DEF Core
  <2> QED BY <2>1, <2>2
<1>7. NodeInv'
  BY <1>3 DEF NodeInv, Resume
<1>8. BatchInv'
  BY DEF Core, BatchInv, Resume, Understanding, batchVars
<1>9. RestInv => RestInv'
  BY DEF RestInv, Resume, Understanding
<1> QED BY <1>5, <1>6, <1>7, <1>8, <1>9 DEF Core, StepKeeps

LEMMA NewPlanStep ==
  ASSUME Core, NewPlan, UNCHANGED parallel
  PROVE  StepKeeps
<1>1. PICK id \in PlanIds \ ({current.id} \union {p.id : p \in shelved}) :
        current' = EmptyPlan(id)
  BY DEF NewPlan
<1>2. /\ Sound(current') /\ current'.id = id /\ Tasks(current') = {}
      /\ Still(current')
  BY <1>1, EmptyPlanIsSound
<1>3. Sound(Now) /\ Still(Now) /\ Now.id = current.id /\ EndedKept(current, Now)
  BY NowFacts DEF Core
<1>4. \A q \in shelved' : q \in shelved \/ (q = Now /\ Open(Now))
  BY DEF NewPlan
<1>5. Typed'
  BY DEF Core, Typed, NewPlan, Understanding, batchVars, Nodes
<1>6. PlansInv'
  <2>1. \A q \in shelved' : Sound(q) /\ Open(q) /\ Still(q)
    BY <1>3, <1>4 DEF Core, PlansInv
  <2>2. \A q \in shelved' : q.id # current'.id
    BY <1>1, <1>2, <1>3, <1>4
  <2>3. \A q, r \in shelved' : q.id = r.id => q = r
    BY <1>3, <1>4 DEF Core, PlansInv, EachPlanOnce
  <2> QED BY <1>2, <2>1, <2>2, <2>3 DEF PlansInv, EachPlanOnce
<1>7. \A q \in Plans' : Descends(q)
  BY <1>1, <1>2, <1>3, <1>4, KeptByItself DEF Plans, Descends
<1>8. EndedStays
  BY <1>7, Descent DEF Core
<1>9. NodeInv'
  BY <1>2 DEF NodeInv, NewPlan
<1>10. BatchInv'
  BY DEF Core, BatchInv, NewPlan, Understanding, batchVars
<1>11. RestInv => RestInv'
  BY DEF RestInv, NewPlan, Understanding
<1> QED BY <1>5, <1>6, <1>8, <1>9, <1>10, <1>11 DEF Core, StepKeeps


\* _cancel of a shelved plan: the current one is only recovered.
LEMMA CancelShelved ==
  ASSUME Core, Understanding, Replied, said' = TRUE, current' = Now,
         UNCHANGED <<broken, parallel>>,
         NEW p \in shelved, NEW chosen \in SUBSET Having(p, Unfinished),
         shelved' = IF Having(Abandoned(p, chosen), Unfinished) = {} THEN Without(p.id)
                    ELSE WithReplaced(Abandoned(p, chosen))
  PROVE  StepKeeps
<1> DEFINE rest == Abandoned(p, chosen)
<1>1. Sound(p) /\ Still(p) /\ p.id # current.id
  BY DEF Core, PlansInv, EachPlanOnce
<1>2. PICK r : /\ r = rest
               /\ Sound(r) /\ Still(r) /\ r.id = p.id /\ EndedKept(p, r)
               /\ Having(r, Unfinished) # {} => Open(r)
  BY <1>1, AbandonedIsSound
<1> HIDE DEF rest
<1>3. \A q \in shelved' :
        (q \in shelved /\ q.id # p.id) \/ (q = r /\ Open(r))
  BY <1>2 DEF Without, WithReplaced, rest
<1>4. /\ Sound(Now) /\ Still(Now) /\ Now.id = current.id /\ EndedKept(current, Now)
      /\ WorkedOff(current) => WorkedOff(Now)
  BY NowFacts DEF Core
<1>5. Typed'
  BY DEF Core, Typed, Understanding, Replied, batchVars, Nodes
<1>6. PlansInv'
  <2>1. \A q \in shelved' : Sound(q) /\ Open(q) /\ Still(q)
    BY <1>2, <1>3 DEF Core, PlansInv
  <2>2. \A q \in shelved' : q.id # current'.id
    BY <1>1, <1>2, <1>3, <1>4 DEF Core, PlansInv, EachPlanOnce
  <2>3. \A q, s \in shelved' : q.id = s.id => q = s
    BY <1>2, <1>3 DEF Core, PlansInv, EachPlanOnce
  <2> QED BY <1>4, <2>1, <2>2, <2>3 DEF PlansInv, EachPlanOnce
<1>7. \A q \in Plans' : Descends(q)
  BY <1>2, <1>3, <1>4, KeptByItself DEF Plans, Descends
<1>8. EndedStays
  BY <1>7, Descent DEF Core
<1>9. NodeInv'
  BY <1>4 DEF NodeInv, Replied
<1>10. BatchInv'
  BY DEF Core, BatchInv, Understanding, batchVars
<1>11. RestInv => RestInv'
  BY <1>4 DEF Core, RestInv, Understanding, Replied
<1> QED BY <1>5, <1>6, <1>8, <1>9, <1>10, <1>11 DEF Core, StepKeeps

\* _cancel of the current plan, or a part of it: the turn is over, or goes on with
\* what is queued.
LEMMA CancelCurrent ==
  ASSUME Core, Understanding, said' = TRUE, UNCHANGED <<broken, parallel, shelved>>,
         NEW chosen \in SUBSET Having(Now, Unfinished), current' = Abandoned(Now, chosen),
         IF MovesOn(Abandoned(Now, chosen))
         THEN node' = "select_task" /\ UNCHANGED live ELSE Replied
  PROVE  StepKeeps
<1>1. Sound(Now) /\ Still(Now) /\ Now.id = current.id /\ EndedKept(current, Now)
  BY NowFacts DEF Core
<1>2. /\ Sound(current') /\ Still(current') /\ current'.id = current.id
      /\ EndedKept(Now, current')
  BY <1>1, AbandonedIsSound
<1>3. IF MovesOn(current') THEN node' = "select_task" /\ UNCHANGED live ELSE Replied
  OBVIOUS
<1>4. MovesOn(current') => ~Open(current')
  BY DEF MovesOn
<1>5. ~MovesOn(current') => WorkedOff(current')
  BY <1>2 DEF MovesOn, WorkedOff, Still, Having
<1>6. Typed'
  BY <1>3 DEF Core, Typed, Understanding, Replied, batchVars, Nodes
<1>7. EndedKept(current, current')
  BY <1>1, <1>2, KeptThrough
<1>8. PlansInv' /\ EndedStays
  BY <1>2, <1>7, CurrentReplaced DEF Core
<1>9. NodeInv'
  BY <1>2, <1>3, <1>4 DEF NodeInv, Replied
<1>10. BatchInv'
  BY DEF Core, BatchInv, Understanding, batchVars
<1>11. RestInv => RestInv'
  BY <1>3, <1>5 DEF RestInv, Understanding, Replied
<1> QED BY <1>6, <1>8, <1>9, <1>10, <1>11 DEF Core, StepKeeps

LEMMA CancelStep ==
  ASSUME Core, NEW id, NEW ids, Cancel(id, ids), UNCHANGED parallel
  PROVE  StepKeeps
<1>1. PICK p \in Target(id) :
        LET unfinished == Having(p, Unfinished)
            chosen == IF ids = {} THEN unfinished ELSE ids \intersect unfinished
            rest == Abandoned(p, chosen)
        IN  IF chosen = {} THEN
                Replied /\ current' = Now /\ UNCHANGED shelved
            ELSE IF p.id # current.id THEN
                /\ Replied
                /\ current' = Now
                /\ shelved' = IF Having(rest, Unfinished) = {} THEN Without(p.id)
                              ELSE WithReplaced(rest)
            ELSE
                /\ current' = rest
                /\ UNCHANGED shelved
                /\ IF MovesOn(rest)
                   THEN node' = "select_task" /\ UNCHANGED live
                   ELSE Replied
  BY DEF Cancel
<1>2. Understanding /\ said' = TRUE /\ UNCHANGED broken
  BY DEF Cancel
<1> DEFINE chosen == IF ids = {} THEN Having(p, Unfinished)
                     ELSE ids \intersect Having(p, Unfinished)
<1>3. chosen \in SUBSET Having(p, Unfinished)
  OBVIOUS
<1>4. \/ p \in shelved /\ p.id # current.id
      \/ p = Now /\ p.id = current.id
  BY TargetFacts DEF Core
<1>5. CASE chosen = {}
  BY <1>1, <1>2, <1>5, QuietReply
<1>6. CASE chosen # {} /\ p.id # current.id
  <2>1. /\ Replied /\ current' = Now
        /\ shelved' = IF Having(Abandoned(p, chosen), Unfinished) = {} THEN Without(p.id)
                      ELSE WithReplaced(Abandoned(p, chosen))
    BY <1>1, <1>6
  <2> HIDE DEF chosen
  <2> QED BY <1>2, <1>3, <1>4, <1>6, <2>1, CancelShelved
<1>7. CASE chosen # {} /\ p.id = current.id
  <2>1. /\ current' = Abandoned(p, chosen) /\ UNCHANGED shelved
        /\ IF MovesOn(Abandoned(p, chosen))
           THEN node' = "select_task" /\ UNCHANGED live ELSE Replied
    BY <1>1, <1>7
  <2> HIDE DEF chosen
  <2> QED BY <1>2, <1>3, <1>4, <1>7, <2>1, CancelCurrent
<1> QED BY <1>5, <1>6, <1>7


\* What the Supervisor may say: a turn that neither resumes nor plans has a reply.
LEMMA RepliesAreThere ==
  ASSUME NEW c \in Resolved, c.relation \in {"new", "continue"}, ~c.planning
  PROVE  c.relation = "new" /\ c.reply = TRUE
<1>1. PICK d \in Resolutions(Positions) :
        /\ IsResolution(d)
        /\ c = [relation |-> d.relation,
                planning |-> d.planning /\ d.relation # "cancel",
                reply |-> d.reply /\ ~d.planning /\ d.relation \in {"new", "continue"},
                revisions |-> IF d.relation = "revise" THEN d.revisions ELSE {}]
  BY DEF Resolved
<1>2. /\ c.relation = d.relation
      /\ c.planning <=> d.planning /\ d.relation # "cancel"
      /\ c.reply = (d.reply /\ ~d.planning /\ d.relation \in {"new", "continue"})
  BY <1>1
<1>3. d.relation \in {"new", "continue"} /\ ~d.planning
  BY <1>2
<1>4. d.reply /\ d.relation = "new"
  BY <1>1, <1>3 DEF IsResolution
<1> QED BY <1>2, <1>3, <1>4

LEMMA UnderstandStep ==
  ASSUME Core, Understand, UNCHANGED parallel
  PROVE  StepKeeps
<1>1. ASSUME DirectReply(TRUE) PROVE StepKeeps
  BY <1>1, QuietReply DEF DirectReply
<1>2. PICK c \in Resolved :
        \/ \E id \in PlanIds \union {None} : Related(c, id)
        \/ /\ \/ c.relation = "new"
              \/ c.relation = "continue" /\ \E id \in PlanIds \union {None} : Target(id) = {}
           /\ IF c.planning THEN NewPlan ELSE DirectReply(c.reply)
  BY DEF Understand
<1>3. CASE \E id \in PlanIds \union {None} : Related(c, id)
  BY <1>1, <1>3, ResumeStep, CancelStep DEF Related
<1>4. CASE /\ c.relation \in {"new", "continue"}
           /\ IF c.planning THEN NewPlan ELSE DirectReply(c.reply)
  <2>1. CASE c.planning
    BY <1>4, <2>1, NewPlanStep
  <2>2. CASE ~c.planning
    <3>1. c.reply = TRUE
      BY <1>4, <2>2, RepliesAreThere
    <3>2. DirectReply(TRUE)
      BY <1>4, <2>2, <3>1
    <3> QED BY <1>1, <3>2
  <2> QED BY <2>1, <2>2
<1> QED BY <1>2, <1>3, <1>4

-----------------------------------------------------------------------------
(* plan, select_task, domain_task, apply_domain_result *)

LEMMA PlanStep ==
  ASSUME Core, Plan, UNCHANGED parallel
  PROVE  StepKeeps
<1>1. PICK pl \in Planned :
        current' = [current EXCEPT
                      !.deps = pl.deps, !.domain = pl.domain,
                      !.status = [t \in DOMAIN pl.deps |-> "pending"],
                      !.handedOff = [t \in DOMAIN pl.deps |-> <<>>]]
  BY DEF Plan
<1>2. pl.deps \in Shapes /\ Orderly(pl.deps) /\ pl.domain \in [DOMAIN pl.deps -> Domains]
  BY PlannedPlans
<1>3. Tasks(current) = {} /\ current \in PlansOver(current.deps) /\ current.drafts = {}
  BY PlanParts DEF Core, PlansInv, Sound, NodeInv, Plan
<1> DEFINE status == [t \in DOMAIN pl.deps |-> "pending"]
           handedOff == [t \in DOMAIN pl.deps |-> <<>>]
<1>4. status \in [DOMAIN pl.deps -> Statuses] /\ handedOff \in [DOMAIN pl.deps -> Seq(Domains)]
  BY DEF Statuses
<1>5. \A t \in DOMAIN pl.deps : status[t] = "pending"
  OBVIOUS
<1> HIDE DEF status, handedOff
<1>6. current'.id = current.id /\ current'.deps = pl.deps /\ current'.status = status
      /\ current'.drafts = {}
  BY <1>1, <1>3 DEF PlansOver, status, handedOff
<1>7. current' \in PlansOver(pl.deps)
  BY <1>1, <1>2, <1>3, <1>4 DEF PlansOver, status, handedOff
<1>8. IsPlan(current') /\ Tasks(current') = DOMAIN pl.deps
  BY <1>2, <1>4, <1>6, <1>7 DEF IsPlan, Tasks
<1>9. /\ Having(current', {"pending"}) = DOMAIN pl.deps
      /\ \A set : "pending" \notin set => Having(current', set) = {}
  BY <1>5, <1>6, <1>8 DEF Having
<1>10. Sound(current') /\ Still(current') /\ ~Open(current')
  <2>1. Earned(current')
    BY <1>5, <1>6, <1>8 DEF Earned
  <2>2. Unblocked(current')
    BY <1>9 DEF Unblocked, Dead
  <2>3. Drafted(current')
    BY <1>6, <1>9 DEF Drafted
  <2> QED BY <1>2, <1>6, <1>8, <1>9, <2>1, <2>2, <2>3 DEF Sound, Still, Open
<1>11. Runnable(current') # {}
  <2>1. DOMAIN pl.deps # {}
    BY <1>2, ConstantsAssumption
  <2>2. PICK t \in DOMAIN pl.deps : pl.deps[t] \intersect DOMAIN pl.deps = {}
    BY <1>2, <2>1 DEF Orderly
  <2>3. pl.deps[t] = {}
    BY <1>2, <2>2 DEF Orderly
  <2> QED BY <1>6, <1>9, <2>2, <2>3 DEF Runnable
<1>12. EndedKept(current, current')
  BY <1>3 DEF EndedKept
<1>13. PlansInv' /\ EndedStays
  BY <1>6, <1>10, <1>12, CurrentReplaced DEF Core, Plan
<1>14. Typed'
  BY DEF Core, Typed, Plan, batchVars, Nodes
<1>15. NodeInv'
  BY <1>10, <1>11 DEF NodeInv, Plan
<1>16. BatchInv'
  BY DEF Core, BatchInv, Plan, batchVars
<1>17. RestInv => RestInv'
  BY DEF RestInv, Plan
<1> QED BY <1>13, <1>14, <1>15, <1>16, <1>17 DEF Core, StepKeeps

LEMMA SelectTaskStep ==
  ASSUME Core, SelectTask, UNCHANGED parallel
  PROVE  StepKeeps
<1>1. Sound(current) /\ Still(current) /\ ~Open(current)
  BY DEF Core, PlansInv, NodeInv, SelectTask
<1>2. /\ Sound(current') /\ ~Open(current') /\ current'.id = current.id
      /\ EndedKept(current, current')
      /\ Having(current', {"running"}) = Selected(current)
  BY <1>1, SelectedIsSound DEF SelectTask
<1>3. Selected(current) \subseteq Positions
  <2>1. Selected(current) \subseteq Tasks(current)
    BY DEF Selected, Runnable, Having
  <2> QED BY <1>1, <2>1, TasksArePositions DEF Sound
<1>4. \A t \in Positions :
        branch'[t] = (IF t \in Selected(current) THEN "running" ELSE "none") /\ result'[t] = None
  BY DEF SelectTask
<1>5. InBatch' = Selected(current)
  BY <1>3, <1>4 DEF InBatch
<1>6. Typed'
  BY DEF Core, Typed, SelectTask, Nodes
<1>7. PlansInv' /\ EndedStays
  BY <1>2, CurrentReplaced DEF Core, SelectTask
<1>8. NodeInv'
  BY <1>2, <1>5 DEF NodeInv, SelectTask
<1>9. BatchInv'
  BY <1>4 DEF BatchInv, SelectTask
<1>10. RestInv => RestInv'
  BY DEF RestInv, SelectTask
<1> QED BY <1>6, <1>7, <1>8, <1>9, <1>10 DEF Core, StepKeeps

LEMMA SelectNothingStep ==
  ASSUME Core, SelectNothing, UNCHANGED parallel
  PROVE  StepKeeps
<1>1. /\ Sound(current) /\ Still(current) /\ ~Open(current)
      /\ said \/ Runnable(current) # {}
  BY DEF Core, PlansInv, NodeInv, SelectNothing
<1>2. Runnable(current) = {}
  BY <1>1, SelectionIsMade DEF Sound, SelectNothing
<1>3. WorkedOff(current)
  BY <1>1, <1>2, NothingRunnable
<1>4. Typed'
  BY DEF Core, Typed, SelectNothing, Replied, batchVars, Nodes
<1>5. PlansInv' /\ EndedStays
  BY PlansUntouched DEF Core, SelectNothing
<1>6. NodeInv'
  BY <1>1, <1>2 DEF NodeInv, SelectNothing, Replied
<1>7. BatchInv'
  BY DEF Core, BatchInv, SelectNothing, batchVars
<1>8. RestInv => RestInv'
  BY <1>3 DEF RestInv, SelectNothing, Replied
<1> QED BY <1>4, <1>5, <1>6, <1>7, <1>8 DEF Core, StepKeeps

LEMMA AskConfirmationStep ==
  ASSUME Core, NEW t \in Positions, AskConfirmation(t), UNCHANGED parallel
  PROVE  StepKeeps
<1>1. Typed'
  BY DEF Core, Typed, AskConfirmation
<1>2. PlansInv' /\ EndedStays
  BY PlansUntouched DEF Core, AskConfirmation
<1>3. InBatch' = InBatch
  BY DEF Core, Typed, InBatch, AskConfirmation
<1>4. NodeInv'
  BY <1>3 DEF Core, NodeInv, AskConfirmation
<1>5. BatchInv'
  BY DEF Core, Typed, BatchInv, AskConfirmation
<1>6. RestInv => RestInv'
  BY DEF RestInv, AskConfirmation
<1> QED BY <1>1, <1>2, <1>4, <1>5, <1>6 DEF Core, StepKeeps

LEMMA BranchReportsStep ==
  ASSUME Core, NEW t \in Positions, BranchReports(t), UNCHANGED parallel
  PROVE  StepKeeps
<1>1. PICK outcome \in Outcomes, to \in Domains \union {None} :
        /\ outcome = "rejected" => branch[t] = "answered"
        /\ result' = [result EXCEPT ![t] = [status |-> outcome, to |-> to]]
  BY DEF BranchReports
<1> DEFINE report == [status |-> outcome, to |-> to]
<1>2. report \in Reports /\ report.status = outcome
  BY DEF Reports
<1>3. result' = [result EXCEPT ![t] = report]
  BY <1>1
<1> HIDE DEF report
<1>4. branch' = [branch EXCEPT ![t] = "done"] /\ branch[t] \in {"running", "answered"}
      /\ node = "domain_task"
  BY DEF BranchReports
<1>5. Typed'
  BY <1>2, <1>3, <1>4 DEF Core, Typed, BranchReports
<1>6. PlansInv' /\ EndedStays
  BY PlansUntouched DEF Core, BranchReports
<1>7. InBatch' = InBatch
  BY <1>4 DEF Core, Typed, InBatch
<1>8. NodeInv'
  BY <1>7 DEF Core, NodeInv, BranchReports
<1>9. BatchInv'
  BY <1>1, <1>2, <1>3, <1>4 DEF Core, Typed, BatchInv, BranchReports
<1>10. RestInv => RestInv'
  BY DEF RestInv, BranchReports
<1> QED BY <1>5, <1>6, <1>8, <1>9, <1>10 DEF Core, StepKeeps

LEMMA BatchDoneStep ==
  ASSUME Core, BatchDone, UNCHANGED parallel
  PROVE  StepKeeps
<1>1. Typed'
  BY DEF Core, Typed, BatchDone, batchVars, Nodes
<1>2. PlansInv' /\ EndedStays
  BY PlansUntouched DEF Core, BatchDone
<1>3. InBatch' = InBatch
  BY DEF InBatch, BatchDone, batchVars
<1>4. NodeInv'
  BY <1>3 DEF Core, NodeInv, BatchDone, batchVars
<1>5. BatchInv'
  BY DEF Core, BatchInv, InBatch, BatchDone, batchVars
<1>6. RestInv => RestInv'
  BY DEF RestInv, BatchDone
<1> QED BY <1>1, <1>2, <1>4, <1>5, <1>6 DEF Core, StepKeeps

LEMMA BatchInterruptedStep ==
  ASSUME Core, BatchInterrupted, UNCHANGED parallel
  PROVE  StepKeeps
<1>1. Typed'
  BY DEF Core, Typed, BatchInterrupted, batchVars
<1>2. PlansInv' /\ EndedStays
  BY PlansUntouched DEF Core, BatchInterrupted
<1>3. InBatch' = InBatch /\ CardPending'
  BY DEF InBatch, CardPending, CardShown, BatchInterrupted, batchVars
<1>4. NodeInv'
  BY <1>3 DEF Core, NodeInv, BatchInterrupted, batchVars
<1>5. BatchInv'
  BY DEF Core, BatchInv, BatchInterrupted, batchVars
<1>6. RestInv => RestInv'
  BY <1>3 DEF RestInv, BatchInterrupted
<1> QED BY <1>1, <1>2, <1>4, <1>5, <1>6 DEF Core, StepKeeps

\* A turn that goes on after a batch has something to run, or has said something.
LEMMA ApplyDomainResultStep ==
  ASSUME Core, ApplyDomainResult, UNCHANGED parallel
  PROVE  StepKeeps
<1>1. /\ Sound(current) /\ ~Open(current)
      /\ InBatch # {} /\ InBatch = Having(current, {"running"})
      /\ \A t \in InBatch : branch[t] = "done"
  BY DEF Core, PlansInv, NodeInv, ApplyDomainResult
<1>2. \A t \in InBatch :
        /\ t \in Positions /\ result[t] \in Reports
        /\ result[t].status = "rejected" => said
  BY <1>1 DEF Core, BatchInv, InBatch
<1>3. PICK q : q = Merged(current)
  OBVIOUS
<1>4. /\ Sound(q) /\ Still(q) /\ q.id = current.id /\ EndedKept(current, q)
      /\ Open(q) => \E t \in InBatch : StatusOf(current, t) = "waiting_input"
      /\ \A t \in InBatch : StatusOf(current, t) = "pending" => t \in Runnable(q)
  BY <1>1, <1>2, <1>3, MergedIsSound DEF Core
<1>5. /\ current' = q /\ said' = (said \/ \E t \in InBatch : Speaks(t))
      /\ IF Open(q) THEN Replied ELSE node' = "select_task" /\ UNCHANGED live
      /\ UNCHANGED <<shelved, broken>> /\ live
  BY <1>3 DEF ApplyDomainResult
<1>6. \A t \in InBatch :
        StatusOf(current, t) = "rejected" => said
  BY <1>1, <1>2, StatusOfResult DEF Core, Sound
<1>7. said' \/ \A t \in InBatch : StatusOf(current, t) = "pending"
  BY <1>5, <1>6 DEF Speaks
<1>8. said' \/ (~Open(q) /\ Runnable(q) # {})
  BY <1>1, <1>4, <1>7
<1>9. \A t \in Positions : branch'[t] = "none" /\ result'[t] = None
  BY DEF ApplyDomainResult
<1>10. Typed'
  BY <1>5, <1>9 DEF Core, Typed, ApplyDomainResult, Replied, Nodes
<1>11. PlansInv' /\ EndedStays
  BY <1>4, <1>5, CurrentReplaced DEF Core
<1>12. NodeInv'
  BY <1>4, <1>5, <1>8 DEF NodeInv, Replied
<1>13. BatchInv'
  BY <1>9 DEF BatchInv
<1>14. RestInv => RestInv'
  BY <1>5 DEF RestInv, Replied, WorkedOff
<1> QED BY <1>10, <1>11, <1>12, <1>13, <1>14 DEF Core, StepKeeps

-----------------------------------------------------------------------------
(* The theorems *)

LEMMA Start == Init => IInv
<1> SUFFICES ASSUME Init PROVE IInv
  OBVIOUS
<1>1. PICK id \in PlanIds : current = EmptyPlan(id)
  BY DEF Init
<1>2. /\ Sound(current) /\ Tasks(current) = {} /\ Still(current) /\ WorkedOff(current)
  BY <1>1, EmptyPlanIsSound
<1>3. Typed
  BY DEF Init, Typed, Nodes
<1>4. PlansInv
  BY <1>2 DEF Init, PlansInv, EachPlanOnce
<1>5. NodeInv
  BY <1>2 DEF Init, NodeInv
<1>6. BatchInv
  BY DEF Init, BatchInv
<1>7. RestInv
  BY <1>2 DEF Init, RestInv
<1> QED BY <1>3, <1>4, <1>5, <1>6, <1>7 DEF IInv, Core

LEMMA WorkSteps == ASSUME Core, Work PROVE StepKeeps
<1>1. UNCHANGED parallel
  BY DEF Work
<1>2. CASE Understand
  BY <1>1, <1>2, UnderstandStep
<1>3. CASE Plan
  BY <1>1, <1>3, PlanStep
<1>4. CASE SelectTask
  BY <1>1, <1>4, SelectTaskStep
<1>5. CASE SelectNothing
  BY <1>1, <1>5, SelectNothingStep
<1>6. CASE BatchDone
  BY <1>1, <1>6, BatchDoneStep
<1>7. CASE BatchInterrupted
  BY <1>1, <1>7, BatchInterruptedStep
<1>8. CASE ApplyDomainResult
  BY <1>1, <1>8, ApplyDomainResultStep
<1>9. CASE \E t \in Positions : AskConfirmation(t) \/ BranchReports(t)
  BY <1>1, <1>9, AskConfirmationStep, BranchReportsStep
<1> QED BY <1>2, <1>3, <1>4, <1>5, <1>6, <1>7, <1>8, <1>9 DEF Work

LEMMA StepsOfTheGraph == ASSUME IInv, Next PROVE IInv' /\ EndedStays
<1>1. ASSUME StepKeeps PROVE IInv' /\ EndedStays
  BY <1>1 DEF StepKeeps, IInv
<1> QED BY <1>1, StartTurnStep, ConfirmStep, RunDiesStep, WorkSteps DEF IInv, Next

LEMMA Stuttering == ASSUME Core, UNCHANGED vars PROVE Core' /\ (RestInv => RestInv')
<1>1. UNCHANGED <<InBatch, CardPending, Runnable(current)>>
  BY DEF vars, InBatch, CardPending, CardShown, Runnable
<1>2. Typed' /\ BatchInv'
  BY DEF Core, Typed, BatchInv, vars
<1>3. PlansInv'
  BY PlansUntouched DEF Core, vars
<1>4. NodeInv' /\ (RestInv => RestInv')
  BY <1>1 DEF Core, NodeInv, RestInv, vars
<1> QED BY <1>2, <1>3, <1>4 DEF Core

\* The inductive invariant of the root graph: what holds of every plan, what
\* each node finds, and what a batch and a resting conversation have left.
THEOREM InvariantHolds == Spec => []IInv
<1>1. IInv /\ [Next]_vars => IInv'
  BY StepsOfTheGraph, Stuttering DEF IInv
<1> QED BY Start, <1>1, PTL DEF Spec

\* The checkpoint always holds plans as the code builds them.
THEOREM TypeCorrect == Spec => []TypeOK
<1>1. IInv => TypeOK
  BY DEF IInv, Core, Typed, PlansInv, Sound, TypeOK, Reports
<1> QED BY InvariantHolds, <1>1, PTL

\* Resuming, shelving and cancelling move a plan and never copy it.
THEOREM PlansAreNeverCopied == Spec => []EachPlanOnce
<1>1. IInv => EachPlanOnce
  BY DEF IInv, Core, PlansInv
<1> QED BY InvariantHolds, <1>1, PTL

\* No task is begun before what it depends on is completed, and none is left in
\* the queue behind one that has died.
THEOREM DependenciesAreKept == Spec => []DependenciesHold
<1>1. IInv => DependenciesHold
  BY DEF IInv, Core, PlansInv, Sound, Earned, Unblocked, DependenciesHold, Plans
<1> QED BY InvariantHolds, <1>1, PTL

\* A task that waits can be resumed with its draft; an ended one has none.
THEOREM DraftsAreThere == Spec => []DraftsBelong
<1>1. IInv => DraftsBelong
  BY DEF IInv, Core, PlansInv, Sound, Drafted, DraftsBelong, Plans
<1> QED BY InvariantHolds, <1>1, PTL

\* Between turns nothing is queued or running where no turn would find it.
THEOREM NoTaskIsStranded == Spec => []NothingStranded
<1>1. IInv => NothingStranded
  <2> SUFFICES ASSUME IInv PROVE NothingStranded
    OBVIOUS
  <2>1. \A p \in shelved : Open(p) /\ Having(p, {"running"}) = {}
    BY DEF IInv, Core, PlansInv, Still
  <2>2. ~live /\ ~CardPending /\ current.id \notin broken => WorkedOff(current)
    BY DEF IInv, Core, RestInv
  <2> QED BY <2>1, <2>2 DEF NothingStranded, WorkedOff
<1> QED BY InvariantHolds, <1>1, PTL

\* A turn that comes to its end has answered the user.
THEOREM TurnsAreAnswered == Spec => []EveryTurnSpeaks
<1>1. IInv => EveryTurnSpeaks
  BY DEF IInv, Core, NodeInv, EveryTurnSpeaks
<1> QED BY InvariantHolds, <1>1, PTL

\* No turn, card, death, recovery or resumption reopens a task that has ended.
THEOREM EndedStaysEnded == Spec => EndedIsFinal
<1>1. IInv /\ [Next]_vars =>
        [\A p \in Plans, q \in Plans' :
            p.id = q.id => \A t \in Tasks(p) :
                p.status[t] \in {"completed", "rejected", "failed"} =>
                    t \in DOMAIN q.status /\ q.status[t] = p.status[t]]_vars
  BY StepsOfTheGraph DEF EndedStays, EndedKept, Ended
<1> QED BY InvariantHolds, <1>1, PTL DEF Spec, EndedIsFinal

-----------------------------------------------------------------------------
(* Unfinished matters *)

\* A plan with something left to do that no run has left without a question.
Unsettled(p) == Having(p, Unfinished) # {} /\ (Open(p) \/ p.id \notin broken)

Stays(p) == \E q \in Plans' : q.id = p.id /\ q.deps = p.deps
Cancels(p) ==
    \E id \in PlanIds \union {None}, ids \in SUBSET Positions :
        p \in Target(id) /\ Cancel(id, ids)
MattersStay == \A p \in shelved \union {Now} : Unsettled(p) => Stays(p) \/ Cancels(p)

LEMMA MattersUntouched ==
  ASSUME PlansInv, current'.id = current.id, current'.deps = current.deps, shelved' = shelved
  PROVE  MattersStay
<1>1. Now.id = current.id /\ Now.deps = current.deps
  BY RecoveredFacts DEF PlansInv, Sound, Now
<1> QED BY <1>1 DEF MattersStay, Stays, Plans

\* When a turn looks at the current plan, what is left to do in it waits for the
\* user, unless a run has died on it: a queue never hides behind a finished turn.
LEMMA LeftoversWait ==
  ASSUME IInv, node = "understand", Unsettled(Now)
  PROVE  Open(Now)
<1>1. SUFFICES ASSUME ~Open(Now) PROVE FALSE
  OBVIOUS
<1>2. Now.id = current.id /\ (WorkedOff(current) => WorkedOff(Now))
  BY NowFacts DEF IInv, Core
<1>3. current.id \notin broken
  BY <1>1, <1>2 DEF Unsettled
<1>4. WorkedOff(Now)
  BY <1>2, <1>3 DEF IInv, RestInv
<1>5. Having(Now, Unfinished) = {}
  BY <1>1, <1>4 DEF WorkedOff, Open, Having, Unfinished
<1> QED BY <1>5 DEF Unsettled

LEMMA ResumeKeepsMatters == ASSUME IInv, NEW id, Resume(id) PROVE MattersStay
<1>1. PICK p \in Target(id) :
        /\ current' = Requeued(p)
        /\ shelved' = IF p.id = current.id THEN shelved
                      ELSE IF Open(Now) THEN Without(p.id) \union {Now}
                      ELSE Without(p.id)
  BY DEF Resume
<1>2. /\ Sound(p) /\ Still(p) /\ Open(p)
      /\ \/ p \in shelved /\ p.id # current.id
         \/ p = Now /\ p.id = current.id
  BY TargetFacts DEF IInv, Core
<1>3. current'.id = p.id /\ current'.deps = p.deps
  BY <1>1, <1>2, RequeuedIsSound
<1>4. CASE p.id = current.id
  <2>1. current'.deps = current.deps
    BY <1>2, <1>3, <1>4, RecoveredFacts DEF IInv, Core, PlansInv, Sound, Now
  <2> QED BY <1>1, <1>3, <1>4, <2>1, MattersUntouched DEF IInv, Core
<1>5. CASE p.id # current.id
  <2> SUFFICES ASSUME NEW q \in shelved \union {Now}, Unsettled(q) PROVE Stays(q)
    BY DEF MattersStay
  <2>1. CASE q \in shelved /\ q.id = p.id
    <3>1. q = p
      BY <1>2, <1>5, <2>1 DEF IInv, Core, PlansInv, EachPlanOnce
    <3> QED BY <1>3, <3>1 DEF Stays, Plans
  <2>2. CASE q \in shelved /\ q.id # p.id
    BY <1>1, <1>5, <2>2 DEF Stays, Plans, Without
  <2>3. CASE q = Now
    <3>1. Open(Now)
      BY <2>3, LeftoversWait DEF Resume, Understanding
    <3> QED BY <1>1, <1>5, <2>3, <3>1 DEF Stays, Plans
  <2> QED BY <2>1, <2>2, <2>3
<1> QED BY <1>4, <1>5

LEMMA NewPlanKeepsMatters == ASSUME IInv, NewPlan PROVE MattersStay
<1> SUFFICES ASSUME NEW q \in shelved \union {Now}, Unsettled(q) PROVE Stays(q)
  BY DEF MattersStay
<1>1. q = Now => Open(Now)
  BY LeftoversWait DEF NewPlan, Understanding
<1> QED BY <1>1 DEF NewPlan, Stays, Plans

\* Cancelling takes the plan it means, and no other.
LEMMA CancelKeepsMatters ==
  ASSUME IInv, NEW id \in PlanIds \union {None}, NEW ids \in SUBSET Positions, Cancel(id, ids)
  PROVE  MattersStay
<1>1. PICK p \in Target(id) :
        \/ current' = Now /\ shelved' = shelved
        \/ /\ current' = Now
           /\ \A q \in Without(p.id) : q \in shelved'
        \/ p.id = current.id /\ shelved' = shelved
  <2>1. PICK p \in Target(id) :
          LET unfinished == Having(p, Unfinished)
              chosen == IF ids = {} THEN unfinished ELSE ids \intersect unfinished
              rest == Abandoned(p, chosen)
          IN  IF chosen = {} THEN
                  current' = Now /\ shelved' = shelved
              ELSE IF p.id # current.id THEN
                  /\ current' = Now
                  /\ shelved' = IF Having(rest, Unfinished) = {} THEN Without(p.id)
                                ELSE Without(rest.id) \union {rest}
              ELSE shelved' = shelved
    BY DEF Cancel, WithReplaced
  <2>2. Sound(p) /\ Still(p)
    BY TargetFacts DEF IInv, Core
  <2>3. \A chosen \in SUBSET Having(p, Unfinished) : Abandoned(p, chosen).id = p.id
    BY <2>2, AbandonedIsSound DEF IInv, Core
  <2>4. \A chosen : Without(p.id) \subseteq Without(p.id) \union {Abandoned(p, chosen)}
    OBVIOUS
  <2> QED BY <2>1, <2>3, <2>4
<1>2. p \in shelved \/ (p = Now /\ p.id = current.id)
  BY TargetFacts DEF IInv, Core
<1> SUFFICES ASSUME NEW q \in shelved \union {Now}, q # p PROVE Stays(q)
  BY DEF MattersStay, Cancels
<1>3. CASE q \in shelved
  <2>1. p \in shelved => q.id # p.id
    BY <1>3 DEF IInv, Core, PlansInv, EachPlanOnce
  <2>2. q.id # p.id
    BY <1>2, <1>3, <2>1 DEF IInv, Core, PlansInv, EachPlanOnce
  <2> QED BY <1>1, <1>3, <2>2 DEF Stays, Plans, Without
<1>4. CASE q = Now
  <2>1. p.id # current.id
    BY <1>2, <1>4, TargetFacts DEF IInv, Core
  <2> QED BY <1>1, <1>4, <2>1 DEF Stays, Plans
<1> QED BY <1>3, <1>4

LEMMA UnderstandKeepsMatters == ASSUME IInv, Understand PROVE MattersStay
<1>1. ASSUME NEW reply, DirectReply(reply) PROVE MattersStay
  <2>1. Now.id = current.id /\ Now.deps = current.deps
    BY RecoveredFacts DEF IInv, Core, PlansInv, Sound, Now
  <2> QED BY <1>1, <2>1, MattersUntouched DEF DirectReply, IInv, Core
<1>2. PICK c \in Resolved :
        \/ \E id \in PlanIds \union {None} : Related(c, id)
        \/ NewPlan \/ DirectReply(c.reply)
  BY DEF Understand
<1>3. ASSUME NEW id \in PlanIds \union {None}, Related(c, id) PROVE MattersStay
  BY <1>1, <1>3, ResumeKeepsMatters, CancelKeepsMatters DEF Related
<1> QED BY <1>1, <1>2, <1>3, NewPlanKeepsMatters

LEMMA StepsKeepMatters == ASSUME IInv, Next PROVE MattersStay
<1>1. CASE Understand
  BY <1>1, UnderstandKeepsMatters
<1>2. CASE Plan
  <2>1. current'.id = current.id
    <3>1. current \in PlansOver(current.deps)
      BY PlanParts DEF IInv, Core, PlansInv, Sound
    <3> QED BY <1>2, <3>1 DEF Plan, PlansOver
  <2>2. Tasks(Now) = {}
    <3>1. Tasks(current) = {}
      BY <1>2 DEF Plan, IInv, Core, NodeInv
    <3> QED BY <3>1, RecoveredFacts DEF IInv, Core, PlansInv, Sound, Now
  <2>3. ~Unsettled(Now)
    BY <2>2 DEF Unsettled, Having
  <2> QED BY <1>2, <2>3 DEF Plan, MattersStay, Stays, Plans
<1>3. CASE SelectTask
  <2>1. current'.id = current.id /\ current'.deps = current.deps
    BY <1>3, SelectedIsSound DEF SelectTask, IInv, Core, PlansInv, NodeInv
  <2> QED BY <1>3, <2>1, MattersUntouched DEF SelectTask, IInv, Core
<1>4. CASE ApplyDomainResult
  <2>1. Sound(current) /\ InBatch \subseteq Tasks(current)
        /\ \A t \in InBatch : result[t] \in Reports
    BY <1>4 DEF IInv, Core, PlansInv, NodeInv, BatchInv, ApplyDomainResult, InBatch, Having
  <2>2. ~Open(current) /\ InBatch = Having(current, {"running"})
    BY <1>4 DEF IInv, Core, NodeInv, ApplyDomainResult
  <2>3. Merged(current).id = current.id /\ Merged(current).deps = current.deps
    BY <2>1, <2>2, MergedIsSound DEF IInv, Core
  <2> QED BY <1>4, <2>3, MattersUntouched DEF ApplyDomainResult, IInv, Core
<1>5. CASE StartTurn \/ Confirm \/ RunDies
  BY <1>5, MattersUntouched DEF StartTurn, NewInput, Confirm, RunDies, IInv, Core
<1>6. CASE \/ SelectNothing \/ BatchDone \/ BatchInterrupted
           \/ \E t \in Positions : AskConfirmation(t) \/ BranchReports(t)
  BY <1>6, MattersUntouched
     DEF SelectNothing, BatchDone, BatchInterrupted, AskConfirmation, BranchReports, IInv, Core
<1> QED BY <1>1, <1>2, <1>3, <1>4, <1>5, <1>6 DEF Next, Work

\* What is left to do of a matter is never dropped by shelving, resuming, replanning
\* or merging: until it is done or that plan is cancelled it has its plan, as long
\* as no run has died on it without leaving the user a question.
THEOREM MattersAreKept == Spec => OpenMattersKept
<1>1. IInv /\ [Next]_vars =>
        [\A p \in shelved \union {Now} :
            Having(p, Unfinished) # {} /\ (Open(p) \/ p.id \notin broken) =>
                \/ \E q \in Plans' : q.id = p.id /\ q.deps = p.deps
                \/ \E id \in PlanIds \union {None}, ids \in SUBSET Positions :
                    p \in Target(id) /\ Cancel(id, ids)]_vars
  BY StepsKeepMatters DEF MattersStay, Unsettled, Stays, Cancels
<1> QED BY InvariantHolds, <1>1, PTL DEF Spec, OpenMattersKept

-----------------------------------------------------------------------------
(* The endpoints.  What a request has read of the conversation stands until a  *)
(* run overlaps it.                                                            *)

RequestRecords ==
    [at : {"none", "admitted", "chat", "confirm", "clear"},
     turn : RequestIds \union {None}, card : Positions \union {None}, overlapped : BOOLEAN]

\* No run is active behind a request that has asked for one and that no run has
\* overlapped; a turn that has read the snapshot besides faces no card.
ReadingsHold ==
    \A r \in Requests : ~request[r].overlapped =>
        /\ request[r].at \in {"admitted", "chat", "clear"} => task = "none"
        /\ request[r].at = "chat" => ~CardPending

EndpointInv == request \in [Requests -> RequestRecords] /\ ReadingsHold

LEMMA QuietRequest == Quiet \in RequestRecords /\ Quiet.at = "none"
  BY DEF Quiet, RequestRecords

\* When a run begins, it overlaps whoever waits.
LEMMA RunsOverlap ==
  ASSUME EndpointInv, NEW r \in Requests, request' = Overlapped(r)
  PROVE  EndpointInv'
<1>1. ASSUME NEW q \in Requests
      PROVE  /\ request'[q] \in RequestRecords
             /\ request'[q].at = "none" \/ request'[q].overlapped
  <2>1. CASE q = r \/ request[q].at = "none"
    <3>1. request'[q] = Quiet
      BY <2>1 DEF Overlapped
    <3> QED BY <3>1, QuietRequest
  <2>2. CASE ~(q = r \/ request[q].at = "none")
    <3>1. request[q] \in RequestRecords
      BY DEF EndpointInv
    <3>2. PICK card \in Positions \union {None} :
            request'[q] = [request[q] EXCEPT !.overlapped = TRUE, !.card = card]
      <4>1. request[q].card \in Positions \union {None}
        BY <3>1 DEF RequestRecords
      <4> QED BY <2>2, <4>1 DEF Overlapped
    <3> QED BY <3>1, <3>2 DEF RequestRecords
  <2> QED BY <2>1, <2>2
<1>2. request' \in [Requests -> RequestRecords]
  <2>1. request' = [q \in Requests |-> request'[q]]
    BY DEF Overlapped
  <2> QED BY <1>1, <2>1
<1>3. ReadingsHold'
  BY <1>1 DEF ReadingsHold
<1> QED BY <1>2, <1>3 DEF EndpointInv

\* A request that ends, or waits for the first time, disturbs no other.
LEMMA OneRequestMoves ==
  ASSUME EndpointInv, NEW r \in Requests, NEW after \in RequestRecords,
         request' = [request EXCEPT ![r] = after], UNCHANGED <<vars, task>>,
         after.overlapped \/ after.at \in {"none", "confirm"}
            \/ (task = "none" /\ (after.at = "chat" => ~CardPending))
  PROVE  EndpointInv'
<1>1. CardPending' = CardPending
  BY DEF CardPending, CardShown, vars
<1>2. request' \in [Requests -> RequestRecords]
  BY DEF EndpointInv
<1>3. \A q \in Requests : request'[q] = IF q = r THEN after ELSE request[q]
  BY DEF EndpointInv
<1>4. ReadingsHold'
  BY <1>1, <1>3 DEF EndpointInv, ReadingsHold
<1> QED BY <1>2, <1>4 DEF EndpointInv

LEMMA RequestSteps ==
  ASSUME EndpointInv, NEW r \in Requests,
         ChatArrives(r) \/ ChatReads(r) \/ MeetsRun(r) \/ ConfirmReads(r) \/ ClearChecks(r)
  PROVE  EndpointInv'
<1>1. request[r] \in RequestRecords
  BY DEF EndpointInv
<1>2. ASSUME Answered(r), UNCHANGED <<vars, task>> PROVE EndpointInv'
  BY <1>2, QuietRequest, OneRequestMoves DEF Answered
<1>3. ASSUME NEW at \in {"admitted", "confirm", "clear"},
             NEW turn \in RequestIds \union {None}, NEW card \in Positions \union {None},
             Waits(r, at, turn, card), UNCHANGED <<vars, task>>,
             task = "none" \/ at = "confirm" \/ (turn # None /\ turn = asked)
      PROVE  EndpointInv'
  <2> DEFINE after == [at |-> at, turn |-> turn, card |-> card,
                       overlapped |-> turn # None /\ turn = asked]
  <2>1. /\ after \in RequestRecords /\ after.at = at
        /\ after.overlapped \/ task = "none" \/ at = "confirm"
    BY <1>3 DEF RequestRecords
  <2>2. request' = [request EXCEPT ![r] = after]
    BY <1>3 DEF Waits
  <2> HIDE DEF after
  <2> QED BY <1>3, <2>1, <2>2, OneRequestMoves
<1>4. CASE ChatReads(r)
  <2>1. CASE CardPending
    BY <1>2, <1>4, <2>1 DEF ChatReads
  <2>2. CASE ~CardPending
    <3> DEFINE after == [request[r] EXCEPT !.at = "chat"]
    <3>1. /\ after \in RequestRecords /\ after.at = "chat"
          /\ after.overlapped = request[r].overlapped
      BY <1>1 DEF RequestRecords
    <3>2. request' = [request EXCEPT ![r] = after]
      BY <1>4, <2>2 DEF ChatReads
    <3> HIDE DEF after
    <3>3. after.overlapped \/ task = "none"
      BY <1>1, <1>4, <3>1 DEF EndpointInv, ReadingsHold, ChatReads, RequestRecords
    <3> QED BY <1>4, <2>2, <3>1, <3>2, <3>3, OneRequestMoves DEF ChatReads
  <2> QED BY <2>1, <2>2
<1>5. CASE ConfirmReads(r)
  BY <1>3, <1>5 DEF ConfirmReads
<1>6. CASE ChatArrives(r) \/ ClearChecks(r)
  BY <1>3, <1>6, RequestsAssumption DEF ChatArrives, ClearChecks
<1>7. CASE MeetsRun(r)
  BY <1>2, <1>7 DEF MeetsRun
<1> QED BY <1>4, <1>5, <1>6, <1>7

\* An active run overlaps every request that counts on there being none; a step of the run, or its end, keeps what the requests have read.
LEMMA RunSteps ==
  ASSUME EndpointInv, task # "none",
         request' \in [Requests -> RequestRecords],
         \A q \in Requests :
            \/ request'[q].at = request[q].at /\ request'[q].overlapped = request[q].overlapped
            \/ request'[q] = Quiet
  PROVE  EndpointInv'
<1>1. \A q \in Requests :
        request[q].overlapped \/ request[q].at \notin {"admitted", "chat", "clear"}
  BY DEF EndpointInv, ReadingsHold
<1>2. ASSUME NEW q \in Requests, ~request'[q].overlapped
      PROVE  request'[q].at \notin {"admitted", "chat", "clear"}
  BY <1>1, <1>2, QuietRequest
<1>3. ReadingsHold'
  BY <1>2 DEF ReadingsHold
<1> QED BY <1>3 DEF EndpointInv

LEMMA ForgettingKeeps ==
  ASSUME EndpointInv, NEW set
  PROVE  /\ Forgetting(set) \in [Requests -> RequestRecords]
         /\ \A q \in Requests :
              /\ Forgetting(set)[q].at = request[q].at
              /\ Forgetting(set)[q].overlapped = request[q].overlapped
<1>1. ASSUME NEW q \in Requests
      PROVE  /\ Forgetting(set)[q] \in RequestRecords
             /\ Forgetting(set)[q].at = request[q].at
             /\ Forgetting(set)[q].overlapped = request[q].overlapped
  <2>1. request[q] \in RequestRecords
    BY DEF EndpointInv
  <2>2. \/ Forgetting(set)[q] = request[q]
        \/ Forgetting(set)[q] = [request[q] EXCEPT !.card = None]
    BY DEF Forgetting
  <2> QED BY <2>1, <2>2 DEF RequestRecords
<1>2. Forgetting(set) = [q \in Requests |-> Forgetting(set)[q]]
  BY DEF Forgetting
<1> QED BY <1>1, <1>2

LEMMA DeletionStep ==
  ASSUME EndpointInv, NEW r \in Requests, ClearDeletes(r)
  PROVE  EndpointInv'
<1>1. /\ Forgetting(Positions) \in [Requests -> RequestRecords]
      /\ \A q \in Requests :
           /\ Forgetting(Positions)[q].at = request[q].at
           /\ Forgetting(Positions)[q].overlapped = request[q].overlapped
  BY ForgettingKeeps
<1>2. request' = [Forgetting(Positions) EXCEPT ![r] = Quiet]
  BY DEF ClearDeletes
<1>3. \A q \in Requests : request'[q] = IF q = r THEN Quiet ELSE Forgetting(Positions)[q]
  BY <1>1, <1>2
<1>4. request' \in [Requests -> RequestRecords]
  BY <1>1, <1>2, QuietRequest
<1>5. ~CardPending'
  BY DEF CardPending, CardShown, ClearDeletes
<1>6. task = "none" => task' = "none"
  BY DEF ClearDeletes
<1>7. ReadingsHold'
  BY <1>1, <1>3, <1>5, <1>6, QuietRequest DEF EndpointInv, ReadingsHold
<1> QED BY <1>4, <1>7 DEF EndpointInv

LEMMA EndpointSteps == ASSUME EndpointInv, NextConversation PROVE EndpointInv'
<1>1. CASE \E r \in Requests :
             ChatArrives(r) \/ ChatReads(r) \/ MeetsRun(r) \/ ConfirmReads(r) \/ ClearChecks(r)
  BY <1>1, RequestSteps
<1>2. CASE \E r \in Requests : ChatStarts(r) \/ ConfirmStarts(r) \/ ConfirmMisses(r)
  BY <1>2, RunsOverlap DEF ChatStarts, ConfirmStarts, ConfirmMisses, Starts
<1>3. CASE \E r \in Requests : ClearDeletes(r)
  BY <1>3, DeletionStep
<1>4. CASE GraphStep
  BY <1>4, ForgettingKeeps, RunSteps DEF GraphStep
<1>5. CASE PublishDone \/ RunRaises \/ PublishError \/ RunEnds
  BY <1>5, RunSteps DEF PublishDone, RunRaises, PublishError, RunEnds, EndpointInv
<1>6. CASE RunKilled
  <2>1. task # "none"
    BY <1>6 DEF RunKilled
  <2>2. CASE request' = request
    BY <2>1, <2>2, RunSteps DEF EndpointInv
  <2>3. CASE request' = [r \in Requests |-> Quiet]
    BY <2>1, <2>3, QuietRequest, RunSteps
  <2> QED BY <1>6, <2>2, <2>3 DEF RunKilled
<1> QED BY <1>1, <1>2, <1>3, <1>4, <1>5, <1>6 DEF NextConversation

\* What a request has read stands until a run overlaps it.
THEOREM ReadingsStand == ConversationSpec => []EndpointInv
<1>1. InitConversation => EndpointInv
  BY QuietRequest DEF InitConversation, EndpointInv, ReadingsHold
<1>2. EndpointInv /\ UNCHANGED <<vars, endpoints>> => EndpointInv'
  BY DEF EndpointInv, ReadingsHold, CardPending, CardShown, vars, endpoints
<1>3. EndpointInv /\ [NextConversation]_<<vars, endpoints>> => EndpointInv'
  BY <1>2, EndpointSteps
<1> QED BY <1>1, <1>3, PTL DEF ConversationSpec

\* No turn starts over a card that is shown, unless a run was active at some time
\* between its check and its start: one that began then, or the one it retries.
THEOREM CardsWaitForAnswers == ConversationSpec => CardsAreAnswered
<1>1. EndpointInv /\ [NextConversation]_<<vars, endpoints>> =>
        [\A r \in Requests :
            CardPending /\ ChatStarts(r) => request[r].overlapped]_<<vars, endpoints>>
  BY DEF EndpointInv, ReadingsHold, ChatStarts
<1> QED BY ReadingsStand, <1>1, PTL DEF ConversationSpec, CardsAreAnswered

\* No thread is deleted under a run its deletion could have seen.
THEOREM DeletionsSpareRuns == ConversationSpec => ClearSparesRuns
<1>1. EndpointInv /\ [NextConversation]_<<vars, endpoints>> =>
        [\A r \in Requests :
            task \in {"graph", "settling", "failing"} /\ ClearDeletes(r)
                => request[r].overlapped]_<<vars, endpoints>>
  BY DEF EndpointInv, ReadingsHold, ClearDeletes
<1> QED BY ReadingsStand, <1>1, PTL DEF ConversationSpec, ClearSparesRuns

-----------------------------------------------------------------------------
(* The graph behind its endpoints: a turn over a card another run has put up,  *)
(* a decision for a card that is gone and a deletion under a run are steps the *)
(* graph alone does not take; what is true of its plans survives them.         *)

\* The graph runs for the task, and a card a request has read has not passed.
RunIsTask == live <=> task = "graph"
CardsMeant ==
    \A r \in Requests : request[r].card # None =>
        branch[request[r].card] \in {"card", "answered"}

ConversationInv == EndpointInv /\ Core /\ RunIsTask /\ CardsMeant

ConversationKeeps ==
    Core' /\ RunIsTask' /\ CardsMeant' /\ (EndedStays \/ \E r \in Requests : ClearDeletes(r))

LEMMA OverlappedCards ==
  ASSUME EndpointInv, NEW r \in Requests, request' = Overlapped(r)
  PROVE  CardsMeant'
<1> SUFFICES ASSUME NEW q \in Requests, request'[q].card # None
             PROVE  branch'[request'[q].card] \in {"card", "answered"}
  BY DEF CardsMeant
<1>1. CASE q = r \/ request[q].at = "none"
  <2>1. request'[q] = Quiet
    BY <1>1 DEF Overlapped
  <2> QED BY <2>1 DEF Quiet
<1>2. CASE ~(q = r \/ request[q].at = "none")
  <2> DEFINE card == IF request[q].card # None
                          /\ branch'[request[q].card] \notin {"card", "answered"}
                       THEN None ELSE request[q].card
  <2>1. request[q] \in RequestRecords
    BY DEF EndpointInv
  <2>2. request'[q] = [request[q] EXCEPT !.overlapped = TRUE, !.card = card]
    BY <1>2 DEF Overlapped
  <2>3. request'[q].card = card
    BY <2>1, <2>2 DEF RequestRecords
  <2> QED BY <2>3
<1> QED BY <1>1, <1>2

LEMMA StartsKeep ==
  ASSUME ConversationInv, NEW r \in Requests, ChatStarts(r) \/ ConfirmStarts(r) \/ ConfirmMisses(r)
  PROVE  ConversationKeeps
<1>1. CardsMeant'
  BY OverlappedCards
     DEF ConversationInv, ChatStarts, ConfirmStarts, ConfirmMisses, Starts
<1>2. CASE ChatStarts(r)
  <2>1. Core' /\ EndedStays
    BY <1>2, NewInputStep DEF ConversationInv, ChatStarts
  <2>2. RunIsTask'
    BY <1>2 DEF RunIsTask, ChatStarts, NewInput, Starts
  <2> QED BY <1>1, <2>1, <2>2 DEF ConversationKeeps
<1>3. CASE ConfirmStarts(r)
  <2>1. PICK t \in Positions :
          branch' = [branch EXCEPT ![t] = "answered"] /\ branch[t] \in {"card", "answered"}
    <3>1. request[r] \in RequestRecords
      BY DEF ConversationInv, EndpointInv
    <3>2. request[r].card \in Positions
      BY <1>3, <3>1 DEF RequestRecords, ConfirmStarts
    <3> QED BY <1>3, <3>2 DEF ConversationInv, CardsMeant, ConfirmStarts
  <2>2. node = "domain_task" /\ live' = TRUE /\ said' = TRUE
        /\ UNCHANGED <<parallel, node, current, shelved, result, broken>>
    BY <1>3, <2>1 DEF ConversationInv, Core, BatchInv, ConfirmStarts
  <2>3. InBatch' = InBatch
    BY <2>1 DEF ConversationInv, Core, Typed, InBatch
  <2>4. PlansInv' /\ EndedStays
    BY <2>2, PlansUntouched DEF ConversationInv, Core
  <2>5. Typed'
    BY <2>1, <2>2 DEF ConversationInv, Core, Typed
  <2>6. NodeInv'
    BY <2>2, <2>3 DEF ConversationInv, Core, NodeInv
  <2>7. BatchInv'
    BY <2>1, <2>2 DEF ConversationInv, Core, Typed, BatchInv
  <2>8. RunIsTask'
    BY <1>3 DEF RunIsTask, ConfirmStarts, Starts
  <2> QED BY <1>1, <2>4, <2>5, <2>6, <2>7, <2>8 DEF ConversationKeeps, Core
<1>4. CASE ConfirmMisses(r)
  <2>1. live' = (node # "end") /\ said' = TRUE
        /\ UNCHANGED <<parallel, node, current, shelved, branch, result, broken>>
    BY <1>4 DEF ConfirmMisses
  <2>2. InBatch' = InBatch /\ Runnable(current)' = Runnable(current)
    BY <2>1 DEF InBatch, Runnable
  <2>3. PlansInv' /\ EndedStays
    BY <2>1, PlansUntouched DEF ConversationInv, Core
  <2>4. Typed' /\ BatchInv'
    BY <2>1 DEF ConversationInv, Core, Typed, BatchInv
  <2>5. NodeInv'
    BY <2>1, <2>2 DEF ConversationInv, Core, NodeInv
  <2>6. RunIsTask'
    BY <1>4 DEF RunIsTask, ConfirmMisses
  <2> QED BY <1>1, <2>3, <2>4, <2>5, <2>6 DEF ConversationKeeps, Core
<1> QED BY <1>2, <1>3, <1>4

LEMMA DeletionKeeps ==
  ASSUME ConversationInv, NEW r \in Requests, ClearDeletes(r)
  PROVE  ConversationKeeps
<1>1. PICK id \in PlanIds : current' = EmptyPlan(id)
  BY DEF ClearDeletes
<1>2. Sound(current') /\ Tasks(current') = {} /\ Still(current')
  BY <1>1, EmptyPlanIsSound
<1>3. PlansInv'
  BY <1>2 DEF PlansInv, EachPlanOnce, ClearDeletes
<1>4. Typed' /\ BatchInv'
  BY DEF ConversationInv, Core, Typed, BatchInv, Nodes, ClearDeletes
<1>5. NodeInv'
  BY <1>2 DEF NodeInv, ClearDeletes
<1>6. RunIsTask'
  BY DEF RunIsTask, ClearDeletes
<1>7. CardsMeant'
  <2> SUFFICES ASSUME NEW q \in Requests PROVE request'[q].card = None
    BY DEF CardsMeant
  <2>1. request' = [Forgetting(Positions) EXCEPT ![r] = Quiet]
    BY DEF ClearDeletes
  <2>2. request[q] \in RequestRecords
    BY DEF ConversationInv, EndpointInv
  <2>3. Forgetting(Positions)[q].card = None
    BY <2>2 DEF Forgetting, RequestRecords
  <2>4. request'[q] = IF q = r THEN Quiet ELSE Forgetting(Positions)[q]
    BY <2>1 DEF Forgetting
  <2> QED BY <2>3, <2>4 DEF Quiet
<1> QED BY <1>3, <1>4, <1>5, <1>6, <1>7 DEF ConversationKeeps, Core

LEMMA GraphStepKeeps == ASSUME ConversationInv, GraphStep PROVE ConversationKeeps
<1>1. Core' /\ EndedStays
  BY WorkSteps DEF ConversationInv, GraphStep, StepKeeps
<1>2. RunIsTask'
  BY <1>1 DEF RunIsTask, GraphStep, Core, Typed
<1>3. CardsMeant'
  <2> SUFFICES ASSUME NEW q \in Requests, request'[q].card # None
               PROVE  branch'[request'[q].card] \in {"card", "answered"}
    BY DEF CardsMeant
  <2> DEFINE moved == {t \in Positions : branch[t] # branch'[t]}
  <2>1. request[q] \in RequestRecords
    BY DEF ConversationInv, EndpointInv
  <2>2. request'[q] = IF request[q].card \in moved THEN [request[q] EXCEPT !.card = None]
                      ELSE request[q]
    BY DEF GraphStep, Forgetting
  <2> HIDE DEF moved
  <2>3. request[q].card \notin moved /\ request'[q] = request[q]
    BY <2>1, <2>2 DEF RequestRecords
  <2>4. request[q].card \in Positions
    BY <2>1, <2>3 DEF RequestRecords
  <2>5. branch'[request[q].card] = branch[request[q].card]
    BY <2>3, <2>4 DEF moved
  <2> QED BY <2>3, <2>5 DEF ConversationInv, CardsMeant
<1> QED BY <1>1, <1>2, <1>3 DEF ConversationKeeps

\* What a death leaves the cards, and no change of the graph, keep.
LEMMA GraphLeftAlone ==
  ASSUME ConversationInv, RunDies \/ UNCHANGED vars
  PROVE  /\ Core' /\ EndedStays
         /\ \A t \in Positions : branch[t] \in {"card", "answered"} =>
                                 branch'[t] \in {"card", "answered"}
<1>1. CASE RunDies
  BY <1>1, RunDiesStep DEF ConversationInv, StepKeeps, RunDies
<1>2. CASE UNCHANGED vars
  BY <1>2, Stuttering, PlansUntouched DEF ConversationInv, Core, vars
<1> QED BY <1>1, <1>2

LEMMA OtherStepsKeep ==
  ASSUME ConversationInv, RunDies \/ UNCHANGED vars, RunIsTask',
         \A q \in Requests :
            request'[q].card # None =>
                \/ request'[q].card = request[q].card
                \/ FirstCard(request'[q].card) /\ request'[q].card \in Positions
  PROVE  ConversationKeeps
<1>1. CardsMeant'
  <2> SUFFICES ASSUME NEW q \in Requests, request'[q].card # None
               PROVE  branch'[request'[q].card] \in {"card", "answered"}
    BY DEF CardsMeant
  <2>1. request[q] \in RequestRecords
    BY DEF ConversationInv, EndpointInv
  <2>2. request'[q].card \in Positions /\ branch[request'[q].card] \in {"card", "answered"}
    BY <2>1 DEF ConversationInv, CardsMeant, FirstCard, CardShown, RequestRecords
  <2> QED BY <2>2, GraphLeftAlone
<1> QED BY <1>1, GraphLeftAlone DEF ConversationKeeps

LEMMA QuietSteps ==
  ASSUME ConversationInv, RunDies \/ UNCHANGED vars, RunIsTask',
         request' \in {request, [r \in Requests |-> Quiet]}
  PROVE  ConversationKeeps
<1>1. ASSUME NEW q \in Requests, request'[q].card # None
      PROVE  request'[q].card = request[q].card
  BY <1>1 DEF Quiet
<1> QED BY <1>1, OtherStepsKeep

LEMMA RequestStepsKeep ==
  ASSUME ConversationInv, NEW r \in Requests,
         ChatArrives(r) \/ ChatReads(r) \/ MeetsRun(r) \/ ConfirmReads(r) \/ ClearChecks(r)
  PROVE  ConversationKeeps
<1>1. UNCHANGED vars /\ task' = task
  BY DEF ChatArrives, ChatReads, MeetsRun, ConfirmReads, ClearChecks
<1>2. RunIsTask'
  BY <1>1 DEF ConversationInv, RunIsTask, vars
<1>3. request[r] \in RequestRecords /\ request \in [Requests -> RequestRecords]
  BY DEF ConversationInv, EndpointInv
<1>4. ASSUME NEW after, request' = [request EXCEPT ![r] = after],
             after.card # None =>
                after.card = request[r].card \/ (FirstCard(after.card) /\ after.card \in Positions)
      PROVE  ConversationKeeps
  <2>1. \A q \in Requests : request'[q] = IF q = r THEN after ELSE request[q]
    BY <1>3, <1>4
  <2> QED BY <1>1, <1>2, <1>4, <2>1, OtherStepsKeep
<1>5. CASE Answered(r)
  <2>1. Quiet.card = None
    BY DEF Quiet
  <2> QED BY <1>4, <1>5, <2>1 DEF Answered
<1>6. CASE request' = [request EXCEPT ![r].at = "chat"]
  <2> DEFINE after == [request[r] EXCEPT !.at = "chat"]
  <2>1. after.card = request[r].card /\ request' = [request EXCEPT ![r] = after]
    BY <1>3, <1>6 DEF RequestRecords
  <2> HIDE DEF after
  <2> QED BY <1>4, <2>1
<1>7. ASSUME NEW at, NEW turn, NEW card, Waits(r, at, turn, card),
             card = None \/ (FirstCard(card) /\ card \in Positions)
      PROVE  ConversationKeeps
  <2> DEFINE after == [at |-> at, turn |-> turn, card |-> card,
                       overlapped |-> turn # None /\ turn = asked]
  <2>1. after.card = card /\ request' = [request EXCEPT ![r] = after]
    BY <1>7 DEF Waits
  <2> HIDE DEF after
  <2> QED BY <1>4, <1>7, <2>1
<1>8. CASE ConfirmReads(r)
  BY <1>7, <1>8 DEF ConfirmReads
<1>9. CASE ChatArrives(r) \/ ClearChecks(r)
  BY <1>7, <1>9 DEF ChatArrives, ClearChecks
<1>10. CASE ChatReads(r) \/ MeetsRun(r)
  BY <1>5, <1>6, <1>10 DEF ChatReads, MeetsRun
<1> QED BY <1>8, <1>9, <1>10

LEMMA ConversationSteps == ASSUME ConversationInv, NextConversation PROVE ConversationKeeps
<1>1. CASE \E r \in Requests :
             ChatArrives(r) \/ ChatReads(r) \/ MeetsRun(r) \/ ConfirmReads(r) \/ ClearChecks(r)
  BY <1>1, RequestStepsKeep
<1>2. CASE \E r \in Requests : ChatStarts(r) \/ ConfirmStarts(r) \/ ConfirmMisses(r)
  BY <1>2, StartsKeep
<1>3. CASE \E r \in Requests : ClearDeletes(r)
  BY <1>3, DeletionKeeps
<1>4. CASE GraphStep
  BY <1>4, GraphStepKeeps
<1>5. CASE PublishDone \/ PublishError \/ RunEnds
  <2>1. UNCHANGED vars /\ request' = request /\ task # "graph" /\ task' # "graph"
    BY <1>5 DEF PublishDone, PublishError, RunEnds
  <2>2. RunIsTask'
    BY <2>1 DEF ConversationInv, RunIsTask, vars
  <2> QED BY <2>1, <2>2, QuietSteps
<1>6. CASE RunRaises
  <2>1. RunIsTask'
    BY <1>6 DEF ConversationInv, RunIsTask, RunRaises, RunDies, vars
  <2> QED BY <1>6, <2>1, QuietSteps DEF RunRaises
<1>7. CASE RunKilled
  <2>1. RunIsTask'
    BY <1>7 DEF ConversationInv, RunIsTask, RunKilled, RunDies, vars
  <2> QED BY <1>7, <2>1, QuietSteps DEF RunKilled
<1> QED BY <1>1, <1>2, <1>3, <1>4, <1>5, <1>6, <1>7 DEF NextConversation

LEMMA ConversationStutters ==
  ASSUME ConversationInv, UNCHANGED <<vars, endpoints>>
  PROVE  ConversationKeeps
<1>1. UNCHANGED vars /\ request' = request /\ task' = task
  BY DEF endpoints
<1>2. RunIsTask'
  BY <1>1 DEF ConversationInv, RunIsTask, vars
<1> QED BY <1>1, <1>2, QuietSteps

\* Behind the endpoints the graph keeps everything but what depends on turns
\* waiting for cards.
THEOREM ConversationHolds == ConversationSpec => []ConversationInv
<1>1. InitConversation => EndpointInv /\ Core /\ RunIsTask /\ CardsMeant
  <2> SUFFICES ASSUME InitConversation PROVE EndpointInv /\ Core /\ RunIsTask /\ CardsMeant
    OBVIOUS
  <2>1. EndpointInv
    BY QuietRequest DEF InitConversation, EndpointInv, ReadingsHold
  <2>2. Core
    BY Start DEF InitConversation, IInv
  <2>3. RunIsTask /\ CardsMeant
    BY DEF InitConversation, Init, RunIsTask, CardsMeant, Quiet
  <2> QED BY <2>1, <2>2, <2>3
<1>2. /\ EndpointInv /\ EndpointInv' /\ Core /\ RunIsTask /\ CardsMeant
      /\ [NextConversation]_<<vars, endpoints>>
      => Core' /\ RunIsTask' /\ CardsMeant'
  BY ConversationSteps, ConversationStutters DEF ConversationInv, ConversationKeeps
<1> QED BY <1>1, <1>2, ReadingsStand, PTL DEF ConversationSpec, ConversationInv

\* However requests interleave (a turn started over a card, a decision that comes
\* too late, a deletion under a run), no plan is copied, no task begun before its
\* dependencies, no draft lost, and no turn ended without a word.
THEOREM PlansSurviveRequests ==
  ConversationSpec => [](EachPlanOnce /\ DependenciesHold /\ DraftsBelong /\ EveryTurnSpeaks)
<1>1. ConversationInv => EachPlanOnce /\ DependenciesHold /\ DraftsBelong /\ EveryTurnSpeaks
  <2> SUFFICES ASSUME ConversationInv
               PROVE  EachPlanOnce /\ DependenciesHold /\ DraftsBelong /\ EveryTurnSpeaks
    OBVIOUS
  <2>1. PlansInv /\ NodeInv
    BY DEF ConversationInv, Core
  <2>2. DependenciesHold
    BY <2>1 DEF PlansInv, Sound, Earned, Unblocked, DependenciesHold, Plans
  <2>3. DraftsBelong
    BY <2>1 DEF PlansInv, Sound, Drafted, DraftsBelong, Plans
  <2> QED BY <2>1, <2>2, <2>3 DEF PlansInv, NodeInv, EveryTurnSpeaks
<1> QED BY ConversationHolds, <1>1, PTL

\* And what a task has ended in stays, unless the conversation itself is deleted.
THEOREM EndedSurvivesRequests ==
  ConversationSpec =>
    [][(\A r \in Requests : ~ClearDeletes(r)) => EndedStays]_<<vars, endpoints>>
<1>1. ConversationInv /\ [NextConversation]_<<vars, endpoints>> =>
        [(\A r \in Requests : ~ClearDeletes(r)) => EndedStays]_<<vars, endpoints>>
  BY ConversationSteps DEF ConversationKeeps
<1> QED BY ConversationHolds, <1>1, PTL DEF ConversationSpec

-----------------------------------------------------------------------------
(* The panel *)

Stuck(p, status) == {t \in Tasks(p) : status[t] \in {"waiting_input", "waiting_confirmation"}}

\* Without a run a plan has a card exactly if a task of it waits, and the card is
\* for the first of them.
LEMMA CardsOfAPlan ==
  ASSUME NEW p, Tasks(p) \subseteq Nat, NEW status, NEW shelf \in BOOLEAN
  PROVE  /\ \A m \in Card(p, status, shelf, FALSE) :
              m.id = p.id /\ m.status # "in_progress" /\ Stuck(p, status) # {}
         /\ \A t \in Stuck(p, status) :
              \E m \in Card(p, status, shelf, FALSE) : m.id = p.id /\ m.task <= t
<1> DEFINE first == Earliest(Stuck(p, status))
           shown(t) == [id |-> p.id, task |-> t,
                        status |-> IF t \notin first THEN "in_progress"
                                   ELSE IF shelf THEN "shelved" ELSE status[t]]
<1>1. Card(p, status, shelf, FALSE) = {shown(t) : t \in first}
  <2>1. Card(p, status, shelf, FALSE)
          = {shown(t) : t \in IF first # {} THEN first ELSE {}}
    BY DEF Card, Stuck
  <2> HIDE DEF first
  <2> QED BY <2>1
<1>2. \A t \in first : t \in Stuck(p, status) /\ \A u \in Stuck(p, status) : t <= u
  BY DEF Earliest
<1>3. Stuck(p, status) # {} => first # {}
  <2>1. Stuck(p, status) \subseteq Nat
    BY DEF Stuck
  <2> QED BY <2>1, LeastPosition DEF Earliest
<1>4. \A t \in first : status[t] # "in_progress"
  BY <1>2 DEF Stuck
<1> HIDE DEF first
<1>5. \A t \in first : /\ shown(t).id = p.id /\ shown(t).task = t
                       /\ shown(t).status # "in_progress"
  BY <1>4
<1> HIDE DEF shown
<1>6. ASSUME NEW m \in Card(p, status, shelf, FALSE)
      PROVE  m.id = p.id /\ m.status # "in_progress" /\ Stuck(p, status) # {}
  <2>1. PICK t \in first : m = shown(t)
    BY <1>1
  <2> QED BY <1>2, <1>5, <2>1
<1>7. ASSUME NEW t \in Stuck(p, status)
      PROVE  \E m \in Card(p, status, shelf, FALSE) : m.id = p.id /\ m.task <= t
  <2>1. PICK u \in first : u <= t
    BY <1>2, <1>3
  <2>2. shown(u) \in Card(p, status, shelf, FALSE)
    BY <1>1
  <2> QED BY <1>5, <2>1, <2>2
<1> QED BY <1>6, <1>7

\* A plan with other statuses, as a response shows it, is read as recovered.
LEMMA RecoveredReading ==
  ASSUME NEW p, IsPlan(p), NEW status, status = [t \in Tasks(p) |-> status[t]]
  PROVE  LET read == Recovered([p EXCEPT !.status = status])
         IN  /\ read.id = p.id /\ Tasks(read) = Tasks(p)
             /\ \A t \in Tasks(p) :
                  read.status[t] = IF status[t] = "running"
                                   THEN IF t \in p.drafts THEN "waiting_input" ELSE "pending"
                                   ELSE status[t]
<1> DEFINE q == [p EXCEPT !.status = status]
           after == [t \in Tasks(p) |->
                        IF status[t] = "running"
                        THEN IF t \in p.drafts THEN "waiting_input" ELSE "pending"
                        ELSE status[t]]
<1>1. p \in PlansOver(p.deps)
  BY PlanParts
<1>2. q.id = p.id /\ q.status = status /\ q.drafts = p.drafts
  BY <1>1 DEF PlansOver
<1>3. Tasks(q) = Tasks(p)
  BY <1>2 DEF Tasks
<1>4. Recovered(q) = [q EXCEPT !.status = after]
  BY <1>2, <1>3 DEF Recovered
<1>5. Recovered(q).id = p.id /\ Recovered(q).status = after
  BY <1>1, <1>4 DEF PlansOver
<1>6. \A t \in Tasks(p) :
        after[t] = IF status[t] = "running"
                   THEN IF t \in p.drafts THEN "waiting_input" ELSE "pending"
                   ELSE status[t]
  OBVIOUS
<1>7. DOMAIN after = Tasks(p)
  OBVIOUS
<1> HIDE DEF q, after
<1>8. Tasks(Recovered(q)) = Tasks(p)
  BY <1>5, <1>7 DEF Tasks
<1> QED BY <1>5, <1>6, <1>8 DEF q

Displayed == ProjectMatters(ResponseStatus, FALSE)

LEMMA DisplayedFacts ==
  ASSUME Core
  PROVE  /\ \A m \in Displayed : m.status # "in_progress"
         /\ ~CardPending /\ (\A t \in Positions : ~Settled(t)) =>
              {m.id : m \in Displayed} = {p.id : p \in {q \in shelved \union {Now} : Open(q)}}
         /\ \A t \in Positions : FirstCard(t) =>
              \E m \in Displayed : m.id = current.id /\ m.task <= t
<1> DEFINE read == Recovered([current EXCEPT !.status = ResponseStatus])
           mine == Card(read, read.status, FALSE, FALSE)
           cards(p) == Card(p, p.status, TRUE, FALSE)
<1>1. Displayed = mine \union UNION {cards(p) : p \in shelved}
  BY DEF Displayed, ProjectMatters
<1>2. IsPlan(current) /\ \A p \in shelved : IsPlan(p) /\ Open(p)
  BY DEF Core, PlansInv, Sound
<1>3. Tasks(current) \subseteq Positions /\ \A p \in shelved : Tasks(p) \subseteq Positions
  BY <1>2, TasksArePositions
<1>4. /\ read.id = current.id /\ Tasks(read) = Tasks(current)
      /\ \A t \in Tasks(current) :
           read.status[t] = IF ResponseStatus[t] = "running"
                            THEN IF t \in current.drafts THEN "waiting_input" ELSE "pending"
                            ELSE ResponseStatus[t]
  <2>1. ResponseStatus = [t \in Tasks(current) |-> ResponseStatus[t]]
    BY DEF ResponseStatus
  <2> QED BY <1>2, <2>1, RecoveredReading
<1>5. /\ Now.id = current.id /\ Tasks(Now) = Tasks(current)
      /\ \A t \in Tasks(current) :
           Now.status[t] = IF current.status[t] = "running"
                           THEN IF t \in current.drafts THEN "waiting_input" ELSE "pending"
                           ELSE current.status[t]
  BY <1>2, RecoveredFacts DEF Now
<1>6. Positions \subseteq Nat
  BY PositionsAreNumbers
<1> HIDE DEF read
<1>7. /\ \A m \in mine :
           m.id = current.id /\ m.status # "in_progress" /\ Stuck(read, read.status) # {}
      /\ \A t \in Stuck(read, read.status) : \E m \in mine : m.id = current.id /\ m.task <= t
  <2>1. Tasks(read) \subseteq Nat
    BY <1>3, <1>4, <1>6
  <2>2. /\ \A m \in mine :
             m.id = read.id /\ m.status # "in_progress" /\ Stuck(read, read.status) # {}
        /\ \A t \in Stuck(read, read.status) : \E m \in mine : m.id = read.id /\ m.task <= t
    BY <2>1, CardsOfAPlan
  <2> HIDE DEF mine
  <2> QED BY <1>4, <2>2
<1>8. \A p \in shelved :
        /\ \A m \in cards(p) : m.id = p.id /\ m.status # "in_progress"
        /\ \E m \in cards(p) : m.id = p.id
  <2> SUFFICES ASSUME NEW p \in shelved
               PROVE  /\ \A m \in cards(p) : m.id = p.id /\ m.status # "in_progress"
                      /\ \E m \in cards(p) : m.id = p.id
    OBVIOUS
  <2>1. PICK t \in Tasks(p) : p.status[t] = "waiting_input"
    BY <1>2 DEF Open, Having
  <2>2. t \in Stuck(p, p.status)
    BY <2>1 DEF Stuck
  <2> QED BY <1>3, <1>6, <2>2, CardsOfAPlan
<1> HIDE DEF mine, cards
<1>9. ASSUME NEW m \in Displayed
      PROVE  /\ m.status # "in_progress"
             /\ \/ m.id = current.id /\ Stuck(read, read.status) # {}
                \/ \E p \in shelved : m.id = p.id
  BY <1>1, <1>7, <1>8, <1>9
<1>10. ASSUME ~CardPending, \A t \in Positions : ~Settled(t)
       PROVE  {m.id : m \in Displayed} = {p.id : p \in {q \in shelved \union {Now} : Open(q)}}
  <2>1. \A t \in Tasks(current) : ResponseStatus[t] = current.status[t]
    BY <1>3, <1>10 DEF ResponseStatus, CardPending, FirstCard
  <2>2. \A t \in Tasks(current) : read.status[t] = Now.status[t]
    BY <1>4, <1>5, <2>1
  <2>3. \A t \in Tasks(current) : current.status[t] \in Statuses
    BY <1>2, PlanParts
  <2>4. Stuck(read, read.status) = Having(Now, {"waiting_input"})
    BY <1>4, <1>5, <2>2, <2>3 DEF Stuck, Having, Statuses
  <2>5. ASSUME NEW m \in Displayed
        PROVE  \E p \in {q \in shelved \union {Now} : Open(q)} : p.id = m.id
    BY <1>2, <1>5, <1>9, <2>4 DEF Open
  <2>6. ASSUME NEW p \in {q \in shelved \union {Now} : Open(q)}
        PROVE  \E m \in Displayed : m.id = p.id
    <3>1. CASE p \in shelved
      BY <1>1, <1>8, <3>1
    <3>2. CASE p = Now
      BY <1>1, <1>5, <1>7, <2>4, <3>2 DEF Open
    <3> QED BY <3>1, <3>2
  <2> QED BY <2>5, <2>6
<1>11. ASSUME NEW t \in Positions, FirstCard(t)
       PROVE  \E m \in Displayed : m.id = current.id /\ m.task <= t
  <2>1. t \in Tasks(current)
    BY <1>11 DEF Core, NodeInv, FirstCard, CardShown, InBatch, Having
  <2>2. ResponseStatus[t] = "waiting_confirmation"
    BY <1>11, <2>1 DEF ResponseStatus
  <2>3. t \in Stuck(read, read.status)
    BY <1>4, <2>1, <2>2 DEF Stuck
  <2> QED BY <1>1, <1>7, <2>3
<1> QED BY <1>9, <1>10, <1>11

\* What the client was told last is what a response would tell it now.
PanelInv == reported => task \in {"closing", "none"} /\ panel = Displayed

LEMMA DisplayedStays == ASSUME UNCHANGED vars PROVE Displayed' = Displayed
  BY DEF vars, Displayed, ProjectMatters, ResponseStatus, Settled, FirstCard, CardShown

LEMMA PanelSteps ==
  ASSUME PanelInv, NextConversation \/ UNCHANGED <<vars, endpoints>>
  PROVE  PanelInv'
<1>1. ASSUME ~reported' PROVE PanelInv'
  BY <1>1 DEF PanelInv
<1>2. ASSUME UNCHANGED <<vars, task, asked, panel, reported>> PROVE PanelInv'
  BY <1>2, DisplayedStays DEF PanelInv
<1>3. CASE \E r \in Requests :
             ChatArrives(r) \/ ChatReads(r) \/ MeetsRun(r) \/ ConfirmReads(r) \/ ClearChecks(r)
  BY <1>2, <1>3 DEF ChatArrives, ChatReads, MeetsRun, ConfirmReads, ClearChecks
<1>4. CASE \E r \in Requests :
             ChatStarts(r) \/ ConfirmStarts(r) \/ ConfirmMisses(r) \/ ClearDeletes(r)
  BY <1>1, <1>4 DEF ChatStarts, ConfirmStarts, ConfirmMisses, ClearDeletes, Starts
<1>5. CASE GraphStep \/ RunRaises
  BY <1>1, <1>5 DEF PanelInv, GraphStep, RunRaises
<1>6. CASE PublishDone \/ PublishError
  <2>1. UNCHANGED vars /\ task' = "closing" /\ (reported' => panel' = Displayed)
    BY <1>6 DEF PublishDone, PublishError, Displayed
  <2> QED BY <2>1, DisplayedStays DEF PanelInv
<1>7. CASE RunKilled
  <2>1. reported' => /\ reported /\ task = "closing" /\ task' = "none"
                     /\ UNCHANGED vars /\ UNCHANGED panel
    BY <1>7 DEF RunKilled
  <2> QED BY <2>1, DisplayedStays DEF PanelInv
<1>8. CASE RunEnds
  <2>1. UNCHANGED vars /\ task' = "none" /\ UNCHANGED <<panel, reported>>
    BY <1>8 DEF RunEnds
  <2> QED BY <2>1, DisplayedStays DEF PanelInv
<1>9. CASE UNCHANGED <<vars, endpoints>>
  BY <1>2, <1>9 DEF endpoints
<1> QED BY <1>3, <1>4, <1>5, <1>6, <1>7, <1>8, <1>9 DEF NextConversation

\* Once a run has said how it ended, the client lists the matters a sentence of the
\* next turn can mean, and none as in progress.
THEOREM PanelIsTrue == ConversationSpec => []PanelTellsTheTruth
<1>1. InitConversation => PanelInv
  BY DEF InitConversation, PanelInv
<1>2. PanelInv /\ [NextConversation]_<<vars, endpoints>> => PanelInv'
  BY PanelSteps
<1>3. ConversationInv /\ PanelInv => PanelTellsTheTruth
  BY DisplayedFacts DEF ConversationInv, PanelInv, PanelTellsTheTruth
<1> QED BY <1>1, <1>2, <1>3, ConversationHolds, PTL DEF ConversationSpec
=============================================================================
