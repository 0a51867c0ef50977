--------------------------- MODULE LifespanProofs ---------------------------
(***************************************************************************)
(* Theorems of Lifespan: for every number of runs and ratings, any budget  *)
(* and any number of faults and kills, no task outlives what it uses,    *)
(* the window of an address is fixed, and the tracing service follows the  *)
(* rating that was submitted last.                                         *)
(***************************************************************************)
EXTENDS Lifespan, TLAPS

(***************************************************************************)
(* The budget.  At most one charge knows that it opened the window, and    *)
(* until its expiry is set there is none.                                  *)
(***************************************************************************)
OneOpens ==
  \A t \in Turns : Opener(t) =>
    /\ counter > 0
    /\ window = "none"
    /\ \A u \in Turns : Opener(u) => u = t

\* a key without expiry is owed one, or nobody heard that he opened it
ExpiryIsOwed ==
  counter > 0 /\ window = "none" => unset \/ \E t \in Turns : Opener(t)

BudgetInv == BudgetTypeOK /\ OneOpens /\ ExpiryIsOwed

USE FeedbackAssumption, BudgetAssumption

LEMMA BudgetStarts == BudgetInit => BudgetInv
<1> SUFFICES ASSUME BudgetInit PROVE BudgetInv
  OBVIOUS
<1>1. BudgetTypeOK
  <2>1. phase \in [Turns -> Phases]
    BY DEF BudgetInit, Phases
  <2>2. unset \in BOOLEAN
    BY Zenon DEF BudgetInit
  <2>3. counter \in Nat /\ window = "none" /\ redisFaults \in 0..MaxRedisFaults
    BY DEF BudgetInit
  <2> QED BY <2>1, <2>2, <2>3 DEF BudgetTypeOK
<1>2. OneOpens /\ ExpiryIsOwed
  BY DEF BudgetInit, OneOpens, ExpiryIsOwed, Opener
<1> QED BY <1>1, <1>2 DEF BudgetInv

LEMMA BudgetStutters == BudgetInv /\ UNCHANGED budgetVars => BudgetInv'
  BY DEF budgetVars, BudgetInv, BudgetTypeOK, OneOpens, ExpiryIsOwed, Opener

\* steps of runs that neither open a window nor know of one
LEMMA MovesKeepBudget ==
  ASSUME BudgetInv, UNCHANGED <<counter, window, unset>>, redisFaults' \in 0..MaxRedisFaults,
         phase' \in [Turns -> Phases], \A t \in Turns : Opener(t)' <=> Opener(t)
  PROVE BudgetInv'
<1>1. BudgetTypeOK'
  BY DEF BudgetInv, BudgetTypeOK
<1>2. OneOpens' /\ ExpiryIsOwed'
  BY DEF BudgetInv, OneOpens, ExpiryIsOwed
<1> QED BY <1>1, <1>2 DEF BudgetInv

LEMMA FaultIsCounted ==
  ASSUME BudgetInv, RedisFault \/ UNCHANGED redisFaults PROVE redisFaults' \in 0..MaxRedisFaults
  BY DEF BudgetInv, BudgetTypeOK, RedisFault

LEMMA BeginKeepsBudget ==
  ASSUME BudgetInv, NEW t \in Turns, Begin(t) PROVE BudgetInv'
<1>1. redisFaults' \in 0..MaxRedisFaults
  BY FaultIsCounted DEF Begin, Admitted
<1>2. phase' \in [Turns -> Phases] /\ \A u \in Turns : Opener(u)' <=> Opener(u)
  BY DEF BudgetInv, BudgetTypeOK, Begin, Move, Opener, Phases
<1> QED BY <1>1, <1>2, MovesKeepBudget DEF Begin

LEMMA EndKeepsBudget ==
  ASSUME BudgetInv, NEW t \in Turns, End(t) PROVE BudgetInv'
<1>1. phase' \in [Turns -> Phases] /\ \A u \in Turns : Opener(u)' <=> Opener(u)
  BY DEF BudgetInv, BudgetTypeOK, End, Move, Opener, Phases, Over, InGraph
<1> QED BY <1>1, FaultIsCounted, MovesKeepBudget DEF End

LEMMA RememberKeepsBudget ==
  ASSUME BudgetInv, NEW t \in Turns, Remember(t) PROVE BudgetInv'
<1>1. phase' \in [Turns -> Phases] /\ \A u \in Turns : Opener(u)' <=> Opener(u)
  BY DEF BudgetInv, BudgetTypeOK, Remember, Move, Opener, Phases
<1> QED BY <1>1, FaultIsCounted, MovesKeepBudget DEF Remember

\* a charge that nobody hears of
LEMMA UnheardKeepsBudget ==
  ASSUME BudgetInv, NEW t \in Turns, AddUnheard(t), redisFaults' \in 0..MaxRedisFaults,
         phase' \in [Turns -> Phases], \A u \in Turns : Opener(u)' <=> Opener(u)
  PROVE BudgetInv'
<1>1. counter' \in Nat /\ counter' > 0 /\ window' = window
  BY DEF BudgetInv, BudgetTypeOK, AddUnheard
<1>2. unset' \in BOOLEAN /\ (unset \/ counter = 0 => unset')
  BY Zenon DEF BudgetInv, BudgetTypeOK, AddUnheard
<1>3. BudgetTypeOK'
  BY <1>1, <1>2 DEF BudgetInv, BudgetTypeOK
<1>4. OneOpens'
  BY <1>1 DEF BudgetInv, OneOpens
<1>5. ExpiryIsOwed'
  <2>1. CASE counter = 0
    BY <1>2, <2>1 DEF ExpiryIsOwed
  <2>2. CASE counter # 0
    <3>1. counter > 0
      BY <2>2 DEF BudgetInv, BudgetTypeOK
    <3> QED BY <1>1, <1>2, <3>1 DEF BudgetInv, ExpiryIsOwed
  <2> QED BY <2>1, <2>2
<1> QED BY <1>3, <1>4, <1>5 DEF BudgetInv

LEMMA ChargeKeepsBudget ==
  ASSUME BudgetInv, NEW t \in Turns, Charge(t) PROVE BudgetInv'
<1>1. phase[t] = "charging" /\ ~Opener(t)
  BY DEF Charge, Opener
<1>2. CASE /\ counter' = counter + Usage[t]
           /\ Move(t, IF First(t) THEN "charged" ELSE "over")
           /\ UNCHANGED <<window, unset, redisFaults>>
  <2>1. counter' \in Nat /\ counter' > 0 /\ (First(t) <=> counter = 0)
    BY <1>2 DEF BudgetInv, BudgetTypeOK, First
  <2>2. /\ phase' \in [Turns -> Phases]
        /\ Opener(t)' <=> First(t)
        /\ \A u \in Turns : u # t => (Opener(u)' <=> Opener(u))
    BY <1>2 DEF BudgetInv, BudgetTypeOK, Move, Opener, Phases, Over
  <2>3. BudgetTypeOK'
    BY <1>2, <2>1, <2>2 DEF BudgetInv, BudgetTypeOK
  <2>4. First(t) => window = "none" /\ \A u \in Turns : ~Opener(u)
    BY <2>1 DEF BudgetInv, BudgetTypeOK, OneOpens
  <2>5. OneOpens'
    BY <1>1, <1>2, <2>1, <2>2, <2>4 DEF BudgetInv, OneOpens
  <2>6. ExpiryIsOwed'
    BY <1>1, <1>2, <2>1, <2>2 DEF BudgetInv, BudgetTypeOK, ExpiryIsOwed
  <2> QED BY <2>3, <2>5, <2>6 DEF BudgetInv
<1>3. CASE RedisFault /\ AddUnheard(t) /\ UNCHANGED phase
  <2>1. phase' \in [Turns -> Phases] /\ \A u \in Turns : Opener(u)' <=> Opener(u)
    BY <1>3 DEF BudgetInv, BudgetTypeOK, Opener
  <2> QED BY <1>3, <2>1, FaultIsCounted, UnheardKeepsBudget
<1>4. CASE RedisFault /\ Move(t, "charge_adrift") /\ UNCHANGED <<counter, window, unset>>
  <2>1. phase' \in [Turns -> Phases] /\ \A u \in Turns : Opener(u)' <=> Opener(u)
    BY <1>1, <1>4 DEF BudgetInv, BudgetTypeOK, Move, Opener, Phases, Over, Adrift
  <2> QED BY <1>4, <2>1, FaultIsCounted, MovesKeepBudget
<1> QED BY <1>2, <1>3, <1>4 DEF Charge

\* the expiry is set, by the run that owes it or by its call that was adrift
LEMMA ExpirySetKeepsBudget ==
  ASSUME BudgetInv, NEW t \in Turns, Opener(t), Move(t, "over"), window' = "fresh",
         UNCHANGED <<counter, unset, redisFaults>>
  PROVE BudgetInv'
<1>1. counter > 0 /\ \A u \in Turns : Opener(u) => u = t
  BY DEF BudgetInv, OneOpens
<1>2. phase' \in [Turns -> Phases] /\ \A u \in Turns : ~Opener(u)'
  BY <1>1 DEF BudgetInv, BudgetTypeOK, Move, Opener, Phases, Over
<1>3. BudgetTypeOK'
  BY <1>1, <1>2 DEF BudgetInv, BudgetTypeOK
<1>4. OneOpens' /\ ExpiryIsOwed'
  BY <1>2 DEF OneOpens, ExpiryIsOwed
<1> QED BY <1>3, <1>4 DEF BudgetInv

LEMMA SetExpiryKeepsBudget ==
  ASSUME BudgetInv, NEW t \in Turns, SetExpiry(t) PROVE BudgetInv'
<1>1. Opener(t)
  BY DEF SetExpiry, Opener
<1>2. CASE window' = "fresh" /\ Move(t, "over") /\ UNCHANGED redisFaults
  BY <1>1, <1>2, ExpirySetKeepsBudget DEF SetExpiry
<1>3. CASE RedisFault /\ Move(t, "expiry_adrift") /\ UNCHANGED window
  <2>1. phase' \in [Turns -> Phases] /\ \A u \in Turns : Opener(u)' <=> Opener(u)
    BY <1>1, <1>3 DEF BudgetInv, BudgetTypeOK, Move, Opener, Phases, Over, Adrift
  <2> QED BY <1>3, <2>1, FaultIsCounted, MovesKeepBudget DEF SetExpiry
<1> QED BY <1>2, <1>3 DEF SetExpiry

LEMMA LandsKeepsBudget ==
  ASSUME BudgetInv, NEW t \in Turns, Lands(t) PROVE BudgetInv'
<1>1. CASE phase[t] = "charge_adrift" /\ AddUnheard(t)
  <2>1. phase' \in [Turns -> Phases] /\ \A u \in Turns : Opener(u)' <=> Opener(u)
    BY <1>1 DEF BudgetInv, BudgetTypeOK, Lands, Move, Opener, Phases, Over
  <2> QED BY <1>1, <2>1, FaultIsCounted, UnheardKeepsBudget DEF Lands
<1>2. CASE phase[t] = "expiry_adrift" /\ window' = "fresh" /\ UNCHANGED <<counter, unset>>
  <2>1. Opener(t)
    BY <1>2 DEF Opener
  <2> QED BY <1>2, <2>1, ExpirySetKeepsBudget DEF Lands
<1> QED BY <1>1, <1>2 DEF Lands

\* a cancellation leaves the expiry owed, now by a call nobody waits for
LEMMA CutOffKeepsBudget ==
  ASSUME BudgetInv, NEW ts \in SUBSET Live, NEW going \in SUBSET InGraph, CutOff(ts, going)
  PROVE BudgetInv'
<1>1. PICK sent \in SUBSET {t \in ts : phase[t] = "charging"} :
        /\ phase' = [t \in Turns |->
                       IF t \in going THEN "charging"
                       ELSE IF t \in sent THEN "charge_adrift"
                       ELSE IF t \notin ts THEN phase[t]
                       ELSE IF phase[t] = "charged" THEN "expiry_adrift" ELSE "over"]
        /\ IF sent = {} THEN UNCHANGED redisFaults ELSE RedisFault
  BY DEF CutOff
<1>2. redisFaults' \in 0..MaxRedisFaults
  BY <1>1, FaultIsCounted
<1>3. ASSUME NEW t \in Turns
      PROVE  phase'[t] \in Phases /\ (Opener(t)' <=> Opener(t))
  <2>1. phase[t] \in Phases
    BY DEF BudgetInv, BudgetTypeOK
  <2>2. /\ t \in going => phase[t] \in {"executing", "remembered"}
        /\ t \in sent => phase[t] = "charging"
        /\ t \in ts => phase[t] \in {"executing", "remembered", "charging", "charged"}
    BY <1>1 DEF Live, InGraph, Recording
  <2>3. CASE t \in going
    <3>1. phase'[t] = "charging"
      BY <1>1, <2>3
    <3> QED BY <2>2, <2>3, <3>1 DEF Opener, Phases
  <2>4. CASE t \notin going /\ t \in sent
    <3>1. phase'[t] = "charge_adrift"
      BY <1>1, <2>4
    <3> QED BY <2>2, <2>4, <3>1 DEF Opener, Phases, Over, Adrift
  <2>5. CASE t \notin going /\ t \notin sent /\ t \in ts
    <3>1. phase'[t] = IF phase[t] = "charged" THEN "expiry_adrift" ELSE "over"
      BY <1>1, <2>5
    <3> QED BY <2>2, <2>5, <3>1 DEF Opener, Phases, Over, Adrift
  <2>6. CASE t \notin going /\ t \notin sent /\ t \notin ts
    <3>1. phase'[t] = phase[t]
      BY <1>1, <2>6
    <3> QED BY <2>1, <3>1 DEF Opener
  <2> QED BY <2>3, <2>4, <2>5, <2>6
<1>4. phase' \in [Turns -> Phases]
  <2>1. phase' = [t \in Turns |-> phase'[t]]
    BY <1>1
  <2> QED BY <1>3, <2>1
<1> QED BY <1>2, <1>3, <1>4, MovesKeepBudget DEF CutOff

LEMMA CancelRunsKeepsBudget ==
  ASSUME BudgetInv, CancelRuns PROVE BudgetInv'
  BY CutOffKeepsBudget DEF CancelRuns

LEMMA AgeKeepsBudget ==
  ASSUME BudgetInv, Age PROVE BudgetInv'
<1>1. BudgetTypeOK'
  <2>1. unset' \in BOOLEAN
    BY Zenon DEF BudgetInv, BudgetTypeOK, Age
  <2>2. counter' \in Nat /\ window' \in {"none", "aged"} /\ (counter' = 0 => window' = "none")
    BY DEF BudgetInv, BudgetTypeOK, Age
  <2> QED BY <2>1, <2>2 DEF BudgetInv, BudgetTypeOK, Age
<1>2. OneOpens' /\ ExpiryIsOwed'
  BY DEF BudgetInv, BudgetTypeOK, OneOpens, ExpiryIsOwed, Opener, Age
<1> QED BY <1>1, <1>2 DEF BudgetInv

(***************************************************************************)
(* The stack.  Its length tells which resources are held; what is left of  *)
(* the runs and extractions is tied to it.                                 *)
(***************************************************************************)
Stacked ==
  /\ stack \in Seq(ToSet(Order))
  /\ Len(stack) \in 0..7
  /\ \A i \in 1..Len(stack) : stack[i] = Order[Len(stack) + 1 - i]

NoHandlers == \A r \in Ratings : rating[r] # "saved"

Tied ==
  /\ process \in {"down", "starting", "up", "stopping"}
  /\ background \subseteq Turns
  /\ process = "down" => stack = <<>>
  /\ process \in {"down", "starting"} => Live = {} /\ background = {}
  /\ process # "up" => NoHandlers
  /\ process = "up" => Len(stack) >= 6
  /\ process = "stopping" /\ Len(stack) < 6 => Live = {}
  /\ process = "stopping" /\ Len(stack) < 4 => background = {}
  /\ releasing => process = "stopping" /\ stack # <<>>

LifeInv == Stacked /\ Tied

LEMMA Orders ==
  /\ Order \in Seq(ToSet(Order)) /\ Len(Order) = 7
  /\ Order[1] = "db_pool" /\ Order[2] = "redis" /\ Order[3] = "milvus"
  /\ Order[4] = "drain_background" /\ Order[5] = "checkpoint_pool"
  /\ Order[6] = "runs" /\ Order[7] = "feedback_sync"
  BY DEF Order, ToSet

LEMMA HeldByLength ==
  ASSUME Stacked, NEW n \in 1..Len(stack) PROVE Order[n] \in Held
<1>1. Len(stack) + 1 - n \in 1..Len(stack)
  BY DEF Stacked
<1>2. stack[Len(stack) + 1 - n] = Order[n]
  BY <1>1 DEF Stacked
<1> QED BY <1>1, <1>2 DEF Held, ToSet, Stacked

LEMMA HeadOfStack ==
  ASSUME Stacked, stack # <<>>
  PROVE Len(stack) \in 1..7 /\ Head(stack) = Order[Len(stack)]
  BY DEF Stacked

LEMMA Consed ==
  ASSUME NEW S, NEW x \in S, NEW s \in Seq(S)
  PROVE /\ <<x>> \o s \in Seq(S)
        /\ Len(<<x>> \o s) = Len(s) + 1
        /\ (<<x>> \o s)[1] = x
        /\ \A i \in 1..Len(s) : (<<x>> \o s)[i + 1] = s[i]
  OBVIOUS

\* the two operations on the stack
LEMMA PushKeepsStacked ==
  ASSUME Stacked, Len(stack) < 7, stack' = <<Order[Len(stack) + 1]>> \o stack
  PROVE Stacked' /\ Len(stack') = Len(stack) + 1
<1> DEFINE x == Order[Len(stack) + 1]
<1>1. x \in ToSet(Order)
  BY Orders DEF Stacked, ToSet
<1>2. /\ stack' \in Seq(ToSet(Order)) /\ Len(stack') = Len(stack) + 1
      /\ stack'[1] = x
      /\ \A i \in 1..Len(stack) : stack'[i + 1] = stack[i]
  BY <1>1, Consed DEF Stacked
<1>3. ASSUME NEW i \in 1..Len(stack') PROVE stack'[i] = Order[Len(stack') + 1 - i]
  <2>1. CASE i = 1
    BY <1>2, <2>1 DEF Stacked
  <2>2. CASE i # 1
    <3>1. i - 1 \in 1..Len(stack) /\ (i - 1) + 1 = i
      BY <1>2, <2>2 DEF Stacked
    <3>2. stack'[i] = stack[i - 1]
      BY <1>2, <3>1
    <3>3. stack[i - 1] = Order[Len(stack) + 1 - (i - 1)]
      BY <3>1 DEF Stacked
    <3>4. Len(stack) + 1 - (i - 1) = Len(stack') + 1 - i
      <4> DEFINE m == Len(stack)
                 m1 == Len(stack')
      <4>1. m \in Nat /\ m1 = m + 1 /\ i \in Nat
        BY <1>2 DEF Stacked
      <4> HIDE DEF m, m1
      <4>2. m + 1 - (i - 1) = m1 + 1 - i
        BY <4>1
      <4> QED BY <4>2 DEF m, m1
    <3> QED BY <3>2, <3>3, <3>4
  <2> QED BY <2>1, <2>2
<1> QED BY <1>2, <1>3 DEF Stacked

LEMMA Beginning ==
  ASSUME NEW S, NEW t \in Seq(S), NEW n \in 0..Len(t)
  PROVE /\ SubSeq(t, 1, n) \in Seq(S) /\ Len(SubSeq(t, 1, n)) = n
        /\ \A i \in 1..n : SubSeq(t, 1, n)[i] = t[i]
  OBVIOUS

LEMMA Empty == ASSUME NEW S, NEW s \in Seq(S), s = <<>> PROVE Len(s) = 0
  OBVIOUS

LEMMA Positions ==
  ASSUME NEW n \in 0..7, NEW i \in 1..n
  PROVE n + 1 - i \in 1..7 /\ (n + 1 - i = 6 => n >= 6)
  OBVIOUS

LEMMA PopKeepsStacked ==
  ASSUME Stacked, stack # <<>>, stack' = Tail(stack)
  PROVE Stacked' /\ Len(stack') = Len(stack) - 1
<1>1. /\ stack' \in Seq(ToSet(Order)) /\ Len(stack') = Len(stack) - 1
      /\ Len(stack) \in 1..7 /\ Len(stack') \in 0..7
  BY DEF Stacked
<1>2. ASSUME NEW i \in 1..Len(stack') PROVE stack'[i] = Order[Len(stack') + 1 - i]
  <2>1. stack'[i] = stack[i + 1] /\ i + 1 \in 1..Len(stack)
    BY <1>1, <1>2 DEF Stacked
  <2> QED BY <1>1, <2>1 DEF Stacked
<1> QED BY <1>1, <1>2 DEF Stacked

(***************************************************************************)
(* What lives is tied to the stack.                                        *)
(***************************************************************************)
LEMMA LifeInit == Init => LifeInv
<1> SUFFICES ASSUME Init PROVE LifeInv
  OBVIOUS
<1>1. Stacked
  BY DEF Init, Stacked
<1>2. Live = {} /\ NoHandlers
  BY DEF Init, BudgetInit, FeedbackInit, Live, InGraph, Recording, NoHandlers
<1>3. Tied
  BY <1>2 DEF Init, Tied
<1> QED BY <1>1, <1>3 DEF LifeInv

LEMMA LifeStutters ==
  ASSUME LifeInv, UNCHANGED <<process, stack, releasing, background, rating>>, Live' = Live
  PROVE LifeInv'
  BY DEF LifeInv, Stacked, Tied, NoHandlers

\* steps that leave the stack and the process as they are
LEMMA TurnStep ==
  ASSUME LifeInv, NEW t \in Turns,
         BeginTurn(t) \/ Remember(t) \/ EndTurn(t) \/ RecordUsage(t) \/ ClientLeaves(t)
           \/ ExtractionEnds(t)
  PROVE LifeInv'
<1>1. Stacked'
  BY DEF LifeInv, Stacked, BeginTurn, Remember, EndTurn, RecordUsage, ClientLeaves,
         ExtractionEnds, lifeVars
<1>2. NoHandlers => NoHandlers'
  BY DEF NoHandlers, BeginTurn, Remember, EndTurn, RecordUsage, ClientLeaves,
         ExtractionEnds, feedbackVars
<1>3. process' = process /\ stack' = stack /\ releasing' = releasing
  BY DEF BeginTurn, Remember, EndTurn, RecordUsage, ClientLeaves, ExtractionEnds, lifeVars
<1>4. process # "up" /\ Live = {} => Live' = {}
  <2> SUFFICES ASSUME process # "up", Live = {} PROVE Live' = {}
    OBVIOUS
  <2>1. phase[t] \notin {"executing", "remembered", "charging", "charged"}
    BY DEF Live, InGraph, Recording
  <2>2. phase' = phase
    BY <2>1 DEF BeginTurn, Remember, EndTurn, RecordUsage, ClientLeaves, ExtractionEnds,
       End, Charge, SetExpiry, InGraph, budgetVars
  <2> QED BY <2>2 DEF Live, InGraph, Recording
<1>5. /\ background' \subseteq Turns
      /\ background = {} /\ Live = {} => background' = {}
  BY DEF LifeInv, Tied, BeginTurn, Remember, EndTurn, RecordUsage, ClientLeaves,
         ExtractionEnds, lifeVars, Live, InGraph
<1>6. Tied'
  BY <1>2, <1>3, <1>4, <1>5 DEF LifeInv, Stacked, Tied
<1> QED BY <1>1, <1>6 DEF LifeInv

LEMMA FeedbackStep ==
  ASSUME LifeInv, Send \/ (\E r \in Ratings : Rate(r))
  PROVE LifeInv'
<1>1. CASE Send
  <2>1. rating' = rating
    BY <1>1 DEF Send, Take, CallUpdate, CallCreate
  <2>2. Live' = Live
    BY <1>1 DEF Send, budgetVars, Live, InGraph, Recording
  <2> QED BY <1>1, <2>1, <2>2, LifeStutters DEF Send, lifeVars
<1>2. CASE \E r \in Ratings : Rate(r)
  BY <1>2 DEF Rate, LifeInv, Stacked, Tied, lifeVars, budgetVars, Live, InGraph, Recording
<1> QED BY <1>1, <1>2

\* the life of the process itself
LEMMA StartUpStep ==
  ASSUME LifeInv, Start \/ Acquire \/ Ready \/ StartFails \/ Stop
  PROVE LifeInv'
<1>1. Live' = Live /\ rating' = rating
  BY DEF Start, Acquire, Ready, StartFails, Stop, budgetVars, feedbackVars, Live, InGraph, Recording
<1>2. CASE Acquire
  <2>1. Stacked'
    BY <1>2, PushKeepsStacked, Orders DEF LifeInv, Acquire
  <2>2. Tied'
    BY <1>1, <1>2 DEF LifeInv, Tied, NoHandlers, Acquire
  <2> QED BY <2>1, <2>2 DEF LifeInv
<1>3. CASE Ready
  <2>1. "runs" \in Held
    <3>1. 6 \in DOMAIN Order /\ Order[6] = "runs"
      BY Orders
    <3>2. "runs" \in ToSet(Order)
      BY <3>1 DEF ToSet
    <3> QED BY <1>3, <3>2 DEF Ready
  <2>2. PICK i \in 1..Len(stack) : stack[i] = "runs"
    BY <2>1 DEF Held, ToSet, LifeInv, Stacked
  <2>3. Order[Len(stack) + 1 - i] = "runs"
    BY <2>2 DEF LifeInv, Stacked
  <2>4. Len(stack) >= 6
    <3> DEFINE k == Len(stack) + 1 - i
    <3>1. k \in 1..7 /\ (k = 6 => Len(stack) >= 6)
      BY <2>2, Positions DEF LifeInv, Stacked
    <3>2. Order[k] = "runs"
      BY <2>3
    <3> HIDE DEF k
    <3>3. k = 6
      BY <3>1, <3>2, Orders
    <3> QED BY <3>1, <3>3
  <2>5. Stacked'
    BY <1>3 DEF LifeInv, Stacked, Ready
  <2>6. Tied'
    BY <1>1, <1>3, <2>4 DEF LifeInv, Tied, NoHandlers, Ready
  <2> QED BY <2>5, <2>6 DEF LifeInv
<1>4. CASE Start \/ StartFails \/ Stop
  <2>1. Stacked'
    BY <1>4 DEF LifeInv, Stacked, Start, StartFails, Stop
  <2>2. Tied'
    BY <1>1, <1>4 DEF LifeInv, Stacked, Tied, NoHandlers, Start, StartFails, Stop
  <2> QED BY <2>1, <2>2 DEF LifeInv
<1> QED BY <1>2, <1>3, <1>4

LEMMA ReleaseStep ==
  ASSUME LifeInv, BeginRelease \/ EndRelease
  PROVE LifeInv'
<1>1. CASE BeginRelease
  <2>1. Stacked'
    BY <1>1 DEF LifeInv, Stacked, BeginRelease
  <2>2. Live = {} => Live' = {}
    <3>1. ASSUME Live = {}, NEW t \in Turns, CancelRuns
          PROVE  phase'[t] \notin {"executing", "remembered", "charging", "charged"}
      <4>1. PICK going \in SUBSET InGraph : CutOff(Live, going)
        BY <3>1 DEF CancelRuns
      <4>2. going = {} /\ phase[t] \notin {"executing", "remembered", "charging", "charged"}
        BY <3>1 DEF Live, InGraph, Recording
      <4>3. phase'[t] = phase[t]
        BY <3>1, <4>1, <4>2 DEF CutOff
      <4> QED BY <4>2, <4>3
    <3>2. CancelRuns \/ phase' = phase
      BY <1>1 DEF BeginRelease, budgetVars
    <3> QED BY <3>1, <3>2 DEF Live, InGraph, Recording
  <2>3. Tied'
    BY <1>1, <2>2 DEF LifeInv, Stacked, Tied, NoHandlers, BeginRelease, feedbackVars
  <2> QED BY <2>1, <2>3 DEF LifeInv
<1>2. CASE EndRelease
  <2>1. stack # <<>> /\ process = "stopping"
    BY <1>2 DEF LifeInv, Tied, EndRelease
  <2>2. Stacked' /\ Len(stack') = Len(stack) - 1 /\ Len(stack) \in 1..7
    BY <1>2, <2>1, PopKeepsStacked, HeadOfStack DEF LifeInv, EndRelease
  <2>3. Head(stack) = Order[Len(stack)]
    BY <2>1, HeadOfStack DEF LifeInv
  <2>4. Live' = Live /\ background' = background /\ rating' = rating
    BY <1>2 DEF EndRelease, CancelWorker, feedbackVars, budgetVars, Live, InGraph, Recording
  <2>5. Len(stack') < 6 => Live = {}
    <3>1. CASE Len(stack) < 6
      BY <2>1, <3>1 DEF LifeInv, Tied
    <3>2. CASE Len(stack) = 6
      BY <1>2, <2>3, <3>2, Orders DEF EndRelease, Drained
    <3> QED BY <2>2, <3>1, <3>2
  <2>6. Len(stack') < 4 => background = {}
    <3>1. CASE Len(stack) < 4
      BY <2>1, <3>1 DEF LifeInv, Tied
    <3>2. CASE Len(stack) = 4
      BY <1>2, <2>3, <3>2, Orders DEF EndRelease, Drained
    <3> QED BY <2>2, <3>1, <3>2
  <2>7. Tied'
    BY <1>2, <2>1, <2>2, <2>4, <2>5, <2>6 DEF LifeInv, Tied, NoHandlers, EndRelease
  <2> QED BY <2>2, <2>7 DEF LifeInv
<1> QED BY <1>1, <1>2

LEMMA DeathStep ==
  ASSUME LifeInv, Exit \/ Crash
  PROVE LifeInv'
<1>1. NoHandlers'
  BY DEF NoHandlers, Exit, Crash, LoseMemory
<1>2. CASE Exit
  <2>1. Live' = {} /\ background' = {}
    BY <1>2 DEF LifeInv, Stacked, Tied, Exit, budgetVars, Live, InGraph, Recording
  <2>2. Stacked' /\ Tied'
    BY <1>1, <1>2, <2>1 DEF LifeInv, Stacked, Tied, Exit
  <2> QED BY <2>2 DEF LifeInv
<1>3. CASE Crash
  <2>1. Live' = {} /\ background' = {} /\ stack' = <<>>
    BY <1>3 DEF Crash, CutOff, Live, InGraph, Recording
  <2>2. Stacked'
    BY <2>1 DEF Stacked
  <2>3. Tied'
    BY <1>1, <1>3, <2>1 DEF Tied, Crash
  <2> QED BY <2>2, <2>3 DEF LifeInv
<1> QED BY <1>2, <1>3

(***************************************************************************)
(* The mirror.  One event is under way at a time; the last of those that   *)
(* wait is the last submitted, and so is the one under way when none       *)
(* waits, unless what came after it was dropped.                           *)
(***************************************************************************)
LastIsSubmitted ==
  /\ \A r, s \in Sending : r = s
  /\ queue # <<>> => queue[Len(queue)] = submitted
  /\ queue = <<>> /\ ~missed => \A r \in Sending : r = submitted
  /\ queue = <<>> /\ ~missed /\ Sending = {} /\ submitted # None => remote = submitted

MirrorInv == FeedbackTypeOK /\ LastIsSubmitted

LEMMA MirrorInit == FeedbackInit => MirrorInv
<1> SUFFICES ASSUME FeedbackInit PROVE MirrorInv
  OBVIOUS
<1>1. missed \in BOOLEAN /\ first \in [Ratings -> BOOLEAN]
  BY Zenon DEF FeedbackInit
<1>2. FeedbackTypeOK
  BY <1>1 DEF FeedbackInit, FeedbackTypeOK
<1>3. LastIsSubmitted
  BY DEF FeedbackInit, LastIsSubmitted, Sending
<1> QED BY <1>2, <1>3 DEF MirrorInv

LEMMA MirrorStutters == MirrorInv /\ UNCHANGED feedbackVars => MirrorInv'
  BY DEF MirrorInv, FeedbackTypeOK, LastIsSubmitted, Sending, feedbackVars

LEMMA SaveKeepsMirror ==
  ASSUME MirrorInv, NEW r \in Ratings, Save(r) PROVE MirrorInv'
<1>1. first' \in [Ratings -> BOOLEAN]
  BY DEF MirrorInv, FeedbackTypeOK, Save
<1>2. FeedbackTypeOK'
  BY <1>1 DEF MirrorInv, FeedbackTypeOK, Save
<1>3. LastIsSubmitted'
  BY DEF MirrorInv, LastIsSubmitted, Sending, Save
<1> QED BY <1>2, <1>3 DEF MirrorInv

LEMMA SubmitKeepsMirror ==
  ASSUME MirrorInv, NEW r \in Ratings, NEW configured \in BOOLEAN, Submit(r, configured)
  PROVE MirrorInv'
<1>1. Sending' = Sending
  BY DEF Submit, Sending
<1>2. CASE configured
  <2>1. /\ queue' = Append(queue, r) /\ submitted' = r
        /\ worker' = "on" /\ UNCHANGED <<local, remote, first, sending, missed, netFaults>>
    BY <1>2 DEF Submit
  <2>2. queue' \in Seq(Ratings) /\ queue' # <<>> /\ queue'[Len(queue')] = r
    BY <2>1 DEF MirrorInv, FeedbackTypeOK
  <2>3. FeedbackTypeOK'
    BY <2>1, <2>2 DEF MirrorInv, FeedbackTypeOK, Submit
  <2>4. LastIsSubmitted'
    BY <1>1, <2>1, <2>2 DEF MirrorInv, LastIsSubmitted
  <2> QED BY <2>3, <2>4 DEF MirrorInv
<1>3. CASE ~configured
  <2>1. UNCHANGED <<queue, worker, submitted, local, remote, first, sending, missed, netFaults>>
    BY <1>3 DEF Submit
  <2>2. FeedbackTypeOK'
    BY <2>1 DEF MirrorInv, FeedbackTypeOK, Submit
  <2>3. LastIsSubmitted'
    BY <1>1, <2>1 DEF MirrorInv, LastIsSubmitted
  <2> QED BY <2>2, <2>3 DEF MirrorInv
<1> QED BY <1>2, <1>3

LEMMA TakeKeepsMirror ==
  ASSUME MirrorInv, Take PROVE MirrorInv'
<1> DEFINE r == Head(queue)
<1>1. r \in Ratings /\ queue' \in Seq(Ratings) /\ queue # <<>>
  BY DEF MirrorInv, FeedbackTypeOK, Take
<1>2. queue' # <<>> => queue'[Len(queue')] = queue[Len(queue)]
  BY DEF MirrorInv, FeedbackTypeOK, Take
<1>3. queue' = <<>> => r = queue[Len(queue)]
  <2> SUFFICES ASSUME queue' = <<>> PROVE r = queue[Len(queue)]
    OBVIOUS
  <2>1. Len(Tail(queue)) = Len(queue) - 1 /\ Len(queue) \in Nat
    BY <1>1 DEF MirrorInv, FeedbackTypeOK
  <2>2. Len(Tail(queue)) = 0
    <3>1. Tail(queue) = <<>> /\ Tail(queue) \in Seq(Ratings)
      BY <1>1 DEF Take
    <3> QED BY <3>1, Empty
  <2>3. Len(queue) = 1
    BY <2>1, <2>2
  <2> QED BY <1>1, <2>3
<1>4. Sending' = {r}
  BY <1>1 DEF MirrorInv, FeedbackTypeOK, Take, Sending
<1>5. FeedbackTypeOK'
  <2>1. missed' \in BOOLEAN
    BY Zenon DEF Take
  <2>2. sending' \in [Ratings -> {"no", "update", "create"}]
    <3>1. (IF first[r] THEN "create" ELSE "update") \in {"no", "update", "create"}
      OBVIOUS
    <3> QED BY <1>1, <3>1 DEF MirrorInv, FeedbackTypeOK, Take
  <2>3. UNCHANGED <<local, remote, rating, first, worker, submitted, netFaults>>
    BY DEF Take
  <2> QED BY <1>1, <2>1, <2>2, <2>3 DEF MirrorInv, FeedbackTypeOK
<1>6. LastIsSubmitted'
  <2>1. queue[Len(queue)] = submitted
    BY <1>1 DEF MirrorInv, LastIsSubmitted
  <2>2. submitted' = submitted
    BY DEF Take
  <2> HIDE DEF r
  <2> QED BY <1>2, <1>3, <1>4, <2>1, <2>2 DEF LastIsSubmitted
<1> QED BY <1>5, <1>6 DEF MirrorInv

LEMMA CallKeepsMirror ==
  ASSUME MirrorInv, NEW r \in Ratings, CallUpdate(r) \/ CallCreate(r)
  PROVE MirrorInv'
<1>1. sending' \in [Ratings -> {"no", "update", "create"}] /\ netFaults' \in 0..MaxNetFaults
  <2>1. sending' \in [Ratings -> {"no", "update", "create"}]
    BY DEF MirrorInv, FeedbackTypeOK, CallUpdate, CallCreate
  <2>2. netFaults' = netFaults \/ NetFault
    BY DEF CallUpdate, CallCreate
  <2>3. netFaults' \in 0..MaxNetFaults
    BY <2>2 DEF MirrorInv, FeedbackTypeOK, NetFault
  <2> QED BY <2>1, <2>3
<1>2. missed' \in BOOLEAN
  BY Zenon DEF MirrorInv, FeedbackTypeOK, CallUpdate, CallCreate
<1>3. remote' \in Ratings \cup {None}
  BY DEF MirrorInv, FeedbackTypeOK, CallUpdate, CallCreate
<1>4. UNCHANGED <<local, rating, first, queue, worker, submitted>>
  BY DEF CallUpdate, CallCreate
<1>5. FeedbackTypeOK'
  BY <1>1, <1>2, <1>3, <1>4 DEF MirrorInv, FeedbackTypeOK
<1>6. r \in Sending /\ Sending = {r}
  BY DEF MirrorInv, LastIsSubmitted, Sending, CallUpdate, CallCreate
<1>7. \/ Sending' = {r} /\ missed' = missed
      \/ Sending' = {} /\ (missed' \/ (remote' = r /\ missed' = missed))
  <2>1. sending' = [sending EXCEPT ![r] = "no"] => Sending' = {}
    BY <1>6 DEF MirrorInv, FeedbackTypeOK, Sending
  <2>2. sending' = [sending EXCEPT ![r] = "create"] => Sending' = {r}
    BY <1>6 DEF MirrorInv, FeedbackTypeOK, Sending
  <2>3. CASE CallUpdate(r)
    <3>1. missed' = missed
      BY <2>3 DEF CallUpdate
    <3>2. \/ sending' = [sending EXCEPT ![r] = "no"] /\ remote' = r
          \/ sending' = [sending EXCEPT ![r] = "create"]
      BY <2>3 DEF CallUpdate
    <3> QED BY <2>1, <2>2, <3>1, <3>2
  <2>4. CASE CallCreate(r)
    <3>1. sending' = [sending EXCEPT ![r] = "no"]
      BY <2>4 DEF CallCreate
    <3>2. missed' \/ (remote' = r /\ missed' = missed)
      BY Zenon, <2>4 DEF CallCreate
    <3> QED BY <2>1, <3>1, <3>2
  <2> QED BY <2>3, <2>4
<1>8. LastIsSubmitted'
  BY <1>4, <1>6, <1>7 DEF MirrorInv, LastIsSubmitted
<1> QED BY <1>5, <1>8 DEF MirrorInv

LEMMA CancelWorkerKeepsMirror ==
  ASSUME MirrorInv, CancelWorker PROVE MirrorInv'
<1>1. missed' \in BOOLEAN
  BY Zenon DEF MirrorInv, FeedbackTypeOK, CancelWorker
<1>2. FeedbackTypeOK'
  BY <1>1 DEF MirrorInv, FeedbackTypeOK, CancelWorker
<1>3. LastIsSubmitted'
  BY DEF MirrorInv, LastIsSubmitted, CancelWorker, Sending
<1> QED BY <1>2, <1>3 DEF MirrorInv

LEMMA LoseMemoryKeepsMirror ==
  ASSUME MirrorInv, LoseMemory PROVE MirrorInv' /\ queue' = <<>> /\ Sending' = {}
<1>1. missed' \in BOOLEAN
  BY Zenon DEF MirrorInv, FeedbackTypeOK, LoseMemory
<1>2. Sending' = {} /\ queue' = <<>>
  BY DEF LoseMemory, Sending
<1>3. remote' \in Ratings \cup {None}
  BY DEF MirrorInv, FeedbackTypeOK, LoseMemory, Sending
<1>4. FeedbackTypeOK'
  BY <1>1, <1>3 DEF MirrorInv, FeedbackTypeOK, LoseMemory
<1>5. ~missed' => queue = <<>> /\ Sending = {} /\ remote' = remote
  BY DEF LoseMemory
<1>6. LastIsSubmitted'
  BY <1>2, <1>5 DEF MirrorInv, LastIsSubmitted, LoseMemory
<1> QED BY <1>2, <1>4, <1>6 DEF MirrorInv

(***************************************************************************)
(* Every step of the process.                                              *)
(***************************************************************************)
DownIsQuiet == process = "down" => worker = "none" /\ queue = <<>> /\ Sending = {}

IInv == BudgetInv /\ LifeInv /\ MirrorInv /\ DownIsQuiet /\ releasing \in BOOLEAN

LEMMA NextBudget == BudgetInv /\ [Next]_vars => BudgetInv'
<1> SUFFICES ASSUME BudgetInv, [Next]_vars PROVE BudgetInv'
  OBVIOUS
<1>1. CASE UNCHANGED budgetVars
  BY <1>1, BudgetStutters
<1>2. ASSUME NEW t \in Turns,
             BeginTurn(t) \/ Remember(t) \/ EndTurn(t) \/ RecordUsage(t) \/ ClientLeaves(t)
      PROVE BudgetInv'
  <2>1. ClientLeaves(t) => {t} \in SUBSET Live /\ CutOff({t}, {})
    BY DEF ClientLeaves, Live, Recording
  <2> QED BY <1>2, <2>1, BeginKeepsBudget, EndKeepsBudget, RememberKeepsBudget, ChargeKeepsBudget,
             SetExpiryKeepsBudget, CutOffKeepsBudget
          DEF BeginTurn, EndTurn, RecordUsage
<1>3. CASE BeginRelease
  BY <1>1, <1>3, CancelRunsKeepsBudget DEF BeginRelease
<1>4. CASE Crash
  BY <1>4, CutOffKeepsBudget DEF Crash
<1>5. CASE Clock \/ RedisCatchesUp
  BY <1>5, AgeKeepsBudget, LandsKeepsBudget DEF Clock, RedisCatchesUp
<1>6. CASE \/ Start \/ Acquire \/ Ready \/ StartFails \/ Stop \/ EndRelease \/ Exit \/ Send
           \/ \E r \in Ratings : Rate(r)
           \/ \E t \in Turns : ExtractionEnds(t)
           \/ UNCHANGED vars
  BY <1>1, <1>6 DEF Start, Acquire, Ready, StartFails, Stop, EndRelease, Exit, Send, Rate,
                    ExtractionEnds, vars
<1> QED BY <1>2, <1>3, <1>4, <1>5, <1>6 DEF Next

LEMMA NextLife == LifeInv /\ BudgetInv /\ [Next]_vars => LifeInv'
<1> SUFFICES ASSUME LifeInv, BudgetInv, [Next]_vars PROVE LifeInv'
  OBVIOUS
<1>1. CASE Clock \/ UNCHANGED vars
  <2>1. Live' = Live
    BY <1>1 DEF Clock, Age, budgetVars, vars, Live, InGraph, Recording
  <2> QED BY <1>1, <2>1, LifeStutters DEF Clock, lifeVars, feedbackVars, vars
<1>2. CASE RedisCatchesUp
  <2>1. PICK t \in Turns : Lands(t)
    BY <1>2 DEF RedisCatchesUp
  <2>2. phase' = [phase EXCEPT ![t] = "over"] /\ phase[t] \in {"charge_adrift", "expiry_adrift"}
    BY <2>1 DEF Lands, Move
  <2>3. Live' = Live
    BY <2>2 DEF BudgetInv, BudgetTypeOK, Live, InGraph, Recording
  <2> QED BY <1>2, <2>3, LifeStutters DEF RedisCatchesUp, lifeVars, feedbackVars
<1> QED BY <1>1, <1>2, TurnStep, FeedbackStep, StartUpStep, ReleaseStep, DeathStep DEF Next

LEMMA NextMirror == MirrorInv /\ [Next]_vars => MirrorInv'
<1> SUFFICES ASSUME MirrorInv, [Next]_vars PROVE MirrorInv'
  OBVIOUS
<1>1. CASE UNCHANGED feedbackVars
  BY <1>1, MirrorStutters
<1>2. ASSUME NEW r \in Ratings, Rate(r) PROVE MirrorInv'
  <2>1. ("feedback_sync" \in Held) \in BOOLEAN
    OBVIOUS
  <2> QED BY <1>2, <2>1, SaveKeepsMirror, SubmitKeepsMirror DEF Rate
<1>3. CASE Send
  BY <1>3, TakeKeepsMirror, CallKeepsMirror DEF Send
<1>4. CASE EndRelease
  BY <1>1, <1>4, CancelWorkerKeepsMirror DEF EndRelease
<1>5. CASE Exit \/ Crash
  BY <1>5, LoseMemoryKeepsMirror DEF Exit, Crash
<1>6. CASE \/ Start \/ Acquire \/ Ready \/ StartFails \/ Stop \/ BeginRelease \/ Clock \/ RedisCatchesUp
           \/ (\E t \in Turns : \/ BeginTurn(t) \/ Remember(t) \/ EndTurn(t) \/ RecordUsage(t)
                                \/ ClientLeaves(t) \/ ExtractionEnds(t))
           \/ UNCHANGED vars
  BY <1>1, <1>6 DEF Start, Acquire, Ready, StartFails, Stop, BeginRelease, Clock, RedisCatchesUp, BeginTurn,
                    Remember, EndTurn, RecordUsage, ClientLeaves, ExtractionEnds, vars
<1> QED BY <1>2, <1>3, <1>4, <1>5, <1>6 DEF Next

LEMMA NextQuiet == DownIsQuiet /\ LifeInv /\ MirrorInv /\ [Next]_vars => DownIsQuiet'
<1> SUFFICES ASSUME DownIsQuiet, LifeInv, MirrorInv, [Next]_vars, process' = "down"
             PROVE (worker = "none" /\ queue = <<>> /\ Sending = {})'
  BY DEF DownIsQuiet
<1>1. CASE Exit \/ Crash
  BY <1>1, LoseMemoryKeepsMirror DEF Exit, Crash, LoseMemory
<1>2. CASE process = "down" /\ UNCHANGED feedbackVars
  BY <1>2 DEF DownIsQuiet, feedbackVars, Sending
<1>3. CASE Send
  <2>1. process = "down"
    BY <1>3 DEF Send, lifeVars
  <2>2. worker = "none" /\ \A r \in Ratings : sending[r] = "no"
    BY <2>1 DEF DownIsQuiet, Sending
  <2> QED BY <1>3, <2>2 DEF Send, Take, CallUpdate, CallCreate
<1>4. CASE \E r \in Ratings : Rate(r)
  BY <1>4 DEF Rate, lifeVars
<1> QED BY <1>1, <1>2, <1>3, <1>4
        DEF Next, Start, Acquire, Ready, StartFails, Stop, BeginTurn, Remember, EndTurn,
            RecordUsage, ClientLeaves, ExtractionEnds, Clock, RedisCatchesUp, BeginRelease, EndRelease,
            lifeVars, vars

LEMMA ReleasingTyped == releasing \in BOOLEAN /\ [Next]_vars => releasing' \in BOOLEAN
<1> SUFFICES ASSUME releasing \in BOOLEAN, [Next]_vars, releasing' # releasing PROVE releasing' \in BOOLEAN
  OBVIOUS
<1>1. CASE Crash \/ BeginRelease \/ EndRelease
  BY Zenon, <1>1 DEF Crash, BeginRelease, EndRelease
<1>2. CASE Start \/ Acquire \/ Ready \/ StartFails \/ Stop \/ Exit
  BY Zenon, <1>2 DEF Start, Acquire, Ready, StartFails, Stop, Exit
<1>3. CASE Send \/ Clock \/ RedisCatchesUp \/ UNCHANGED vars
  BY <1>3 DEF Send, Clock, RedisCatchesUp, lifeVars, vars
<1>4. CASE \E r \in Ratings : Rate(r)
  BY <1>4 DEF Rate, lifeVars
<1>5. ASSUME NEW t \in Turns,
             BeginTurn(t) \/ Remember(t) \/ EndTurn(t) \/ RecordUsage(t) \/ ClientLeaves(t)
               \/ ExtractionEnds(t)
      PROVE FALSE
  BY <1>5 DEF BeginTurn, Remember, EndTurn, RecordUsage, ClientLeaves, ExtractionEnds, lifeVars
<1> QED BY <1>1, <1>2, <1>3, <1>4, <1>5 DEF Next

LEMMA NextIInv == IInv /\ [Next]_vars => IInv'
  BY NextBudget, NextLife, NextMirror, NextQuiet, ReleasingTyped DEF IInv

LEMMA InitIInv == Init => IInv
<1> SUFFICES ASSUME Init PROVE IInv
  OBVIOUS
<1>1. BudgetInv /\ LifeInv /\ MirrorInv
  BY BudgetStarts, LifeInit, MirrorInit DEF Init
<1>2. DownIsQuiet
  BY DEF Init, FeedbackInit, DownIsQuiet, Sending
<1>3. releasing \in BOOLEAN
  BY Zenon DEF Init
<1> QED BY <1>1, <1>2, <1>3 DEF IInv

(***************************************************************************)
(* Theorems.                                                               *)
(***************************************************************************)

\* The invariant of the three parts - window, stack, mirror - is inductive, so
\* it holds after any number of starts, failed starts, shutdowns and kills of
\* the process of main.py.
THEOREM InvariantHolds == Spec => []IInv
<1>1. IInv /\ [Next]_vars => IInv'
  BY NextIInv
<1> QED BY InitIInv, <1>1, PTL DEF Spec

\* Every variable keeps to its type, the exit stack is the registered resources
\* in reverse, and nothing of a process outlives it.
THEOREM TypeCorrect == Spec => []TypeOK
<1>1. IInv => TypeOK
  <2> SUFFICES ASSUME IInv PROVE TypeOK
    OBVIOUS
  <2> DEFINE n == Len(stack)
             s == SubSeq(Order, 1, n)
  <2>1. n \in 0..7 /\ stack \in Seq(ToSet(Order))
    BY DEF IInv, LifeInv, Stacked
  <2>2. s \in Seq(ToSet(Order)) /\ Len(s) = n /\ \A i \in 1..n : s[i] = Order[i]
    <3>1. n \in 0..Len(Order) /\ Order \in Seq(ToSet(Order))
      BY <2>1, Orders
    <3> HIDE DEF n
    <3> QED BY <3>1, Beginning
  <2>3. stack = [i \in 1..n |-> s[(n - i) + 1]]
    <3>1. \A i \in 1..n : stack[i] = s[(n - i) + 1]
      <4> TAKE i \in 1..n
      <4>1. stack[i] = Order[n + 1 - i]
        BY DEF IInv, LifeInv, Stacked
      <4> HIDE DEF n, s
      <4>2. (n - i) + 1 \in 1..n /\ n + 1 - i = (n - i) + 1
        BY <2>1
      <4> QED BY <2>2, <4>1, <4>2
    <3>2. stack = [i \in 1..n |-> stack[i]]
      BY <2>1
    <3> HIDE DEF n, s
    <3> QED BY <3>1, <3>2
  <2>4. stack = Reverse(SubSeq(Order, 1, Len(stack)))
    BY <2>2, <2>3 DEF Reverse
  <2> QED BY <2>4 DEF IInv, BudgetInv, LifeInv, Tied, MirrorInv, DownIsQuiet, TypeOK
<1> QED BY <1>1, InvariantHolds, PTL

\* No run, extraction or request ever reaches for a pool or client that the
\* exit stack has released, or that start-up has not acquired.
THEOREM ResourcesOutliveTasks == Spec => []NoUseAfterRelease
<1>1. IInv => NoUseAfterRelease
  <2> SUFFICES ASSUME IInv PROVE NoUseAfterRelease
    OBVIOUS
  <2>1. Stacked /\ Tied
    BY DEF IInv, LifeInv
  <2>2. Live # {} => Len(stack) >= 6
    BY <2>1 DEF Tied
  <2>3. background # {} => Len(stack) >= 4
    BY <2>1 DEF Stacked, Tied
  <2>4. ~NoHandlers => Len(stack) >= 6
    BY <2>1 DEF Tied
  <2>5. ASSUME Len(stack) >= 1 PROVE "db_pool" \in Held
    BY <2>1, <2>5, HeldByLength, Orders DEF Stacked
  <2>6. ASSUME Len(stack) >= 6 PROVE {"db_pool", "redis", "milvus", "checkpoint_pool"} \subseteq Held
    <3>1. {1, 2, 3, 5} \subseteq 1..Len(stack)
      BY <2>1, <2>6 DEF Stacked
    <3>2. Order[1] \in Held /\ Order[2] \in Held /\ Order[3] \in Held /\ Order[5] \in Held
      BY <2>1, <3>1, HeldByLength
    <3> QED BY <3>2, Orders
  <2>7. InGraph # {} \/ Recording # {} => Live # {}
    BY DEF Live
  <2> QED BY <2>1, <2>2, <2>3, <2>4, <2>5, <2>6, <2>7 DEF NoUseAfterRelease, Needed, NoHandlers
<1> QED BY <1>1, InvariantHolds, PTL

\* Once nothing is under way and nothing was lost, the tracing service shows
\* the rating submitted last, whatever failed before.
THEOREM MirrorFollows == Spec => []MirrorFollowsLatest
<1>1. IInv => MirrorFollowsLatest
  BY DEF IInv, MirrorInv, LastIsSubmitted, MirrorFollowsLatest, Settled
<1> QED BY <1>1, InvariantHolds, PTL

\* However the charges of an address overlap, fail, are repeated, cut off or come
\* late, an expiry that is set is never pushed back, and one that is missing is owed,
\* or its call is adrift, unless nobody has heard which charge opened the window.
THEOREM WindowIsFixed == Spec => IpWindowIsFixed
<1>1. BudgetInv /\ [Next]_vars => [WindowKept]_budgetVars
  <2> SUFFICES ASSUME BudgetInv, [Next]_vars PROVE WindowKept \/ UNCHANGED budgetVars
    OBVIOUS
  <2>1. BudgetInv'
    BY NextBudget
  <2>2. ASSUME window = "aged", window' = "fresh" PROVE FALSE
    <3>1. PICK t \in Turns : SetExpiry(t) \/ Lands(t)
      BY <2>2 DEF Next, Start, Acquire, Ready, StartFails, Stop, Rate, Send, BeginTurn, Remember,
         EndTurn, RecordUsage, ClientLeaves, ExtractionEnds, Clock, RedisCatchesUp, BeginRelease, EndRelease, Exit,
         Crash, Begin, End, Charge, AddUnheard, CutOff, CancelRuns, Age, budgetVars, vars
    <3>2. Opener(t)
      BY <2>2, <3>1 DEF SetExpiry, Lands, AddUnheard, Opener
    <3> QED BY <2>2, <3>2 DEF BudgetInv, OneOpens
  <2> QED BY <2>1, <2>2 DEF WindowKept, BudgetInv, ExpiryIsOwed
<1>2. IInv => BudgetInv
  BY DEF IInv
<1> QED BY <1>1, <1>2, InvariantHolds, PTL DEF Spec, IpWindowIsFixed
=============================================================================
