----------------------------- MODULE TokenBudget -----------------------------
(***************************************************************************)
(* The token budget of a client address (api/routes.py): checked before a  *)
(* new turn, charged when a run ends (_record_usage, in the finally of     *)
(* _execute_run), in a fixed window that begins with the first charge.     *)
(* The turns come from any conversations of that address, so they overlap. *)
(* The counter of a conversation has the same two calls and renews its     *)
(* expiry on every charge; it is the time spent "charging" here.           *)
(* A call that fails or is cancelled may have been sent: Redis carries it  *)
(* out at any later time, or never, and nobody hears of it.                *)
(***************************************************************************)
EXTENDS Naturals

CONSTANTS Turns,           \* runs, each with a tracker of its own
          Budget,          \* ip_token_budget
          Usage,           \* tokens of a run that calls a model (tracker.total_tokens)
          MaxRedisFaults   \* times that calls to Redis fail or are left adrift (bound)

ASSUME BudgetAssumption ==
  Budget \in Nat \ {0} /\ Usage \in [Turns -> Nat \ {0}] /\ MaxRedisFaults \in Nat

VARIABLES phase,     \* where a run stands
          counter,   \* the key in Redis; 0 is no key
          window,    \* its expiry: none, just set, or set some time ago
          unset,     \* history: nobody knows he opened the window of this key
          redisFaults

\* a call of a run that is over, adrift between the process and Redis
Adrift == {"charge_adrift", "expiry_adrift"}
Over == {"over"} \cup Adrift
Phases == {"idle", "executing", "remembered", "charging", "charged"} \cup Over

budgetVars == <<phase, counter, window, unset, redisFaults>>

BudgetTypeOK ==
  /\ phase \in [Turns -> Phases]
  /\ counter \in Nat
  /\ window \in {"none", "fresh", "aged"}
  /\ unset \in BOOLEAN
  /\ redisFaults \in 0..MaxRedisFaults
  \* only a key can have an expiry
  /\ counter = 0 => window = "none"

BudgetInit ==
  /\ phase = [t \in Turns |-> "idle"]
  /\ counter = 0
  /\ window = "none"
  /\ unset = FALSE
  /\ redisFaults = 0

InGraph == {t \in Turns : phase[t] \in {"executing", "remembered"}}

Move(t, to) == phase' = [phase EXCEPT ![t] = to]

RedisFault == redisFaults < MaxRedisFaults /\ redisFaults' = redisFaults + 1

\* _enforce_token_budget: below the budget, or Redis does not answer
Admitted ==
  \/ counter < Budget /\ UNCHANGED redisFaults
  \/ RedisFault

\* a new turn is checked; the answer to a card is not
Begin(t) ==
  /\ phase[t] = "idle"
  /\ \/ Admitted
     \/ UNCHANGED redisFaults /\ \E c \in Turns : phase[c] \in Over
  /\ Move(t, "executing")
  /\ UNCHANGED <<counter, window, unset>>

\* the graph ends, fails or is cancelled: the finally runs, and returns at
\* once if no model was called
End(t) ==
  /\ t \in InGraph
  /\ Move(t, "over") \/ Move(t, "charging")
  /\ UNCHANGED <<counter, window, unset, redisFaults>>

\* [mutant] whoever charges sets the expiry
FirstAlways(t) == counter > 0

\* the charge that opened the window sees its own amount as the total
First(t) == counter' = Usage[t]

\* Redis adds to the key of the address, and nobody learns the total
AddUnheard(t) ==
  /\ counter' = counter + Usage[t]
  /\ unset' = (unset \/ counter = 0)
  /\ UNCHANGED window

\* INCRBY: it is answered; or its answer is lost and the client library sends it
\* once more; or it fails
Charge(t) ==
  /\ phase[t] = "charging"
  /\ \/ /\ counter' = counter + Usage[t]
        /\ Move(t, IF First(t) THEN "charged" ELSE "over")
        /\ UNCHANGED <<window, unset, redisFaults>>
     \/ RedisFault /\ AddUnheard(t) /\ UNCHANGED phase
     \/ RedisFault /\ Move(t, "charge_adrift") /\ UNCHANGED <<counter, window, unset>>

\* EXPIRE on it
SetExpiry(t) ==
  /\ phase[t] = "charged"
  /\ \/ window' = "fresh" /\ Move(t, "over") /\ UNCHANGED redisFaults
     \/ RedisFault /\ Move(t, "expiry_adrift") /\ UNCHANGED window
  /\ UNCHANGED <<counter, unset>>

\* a call nobody waits for any more is carried out after all
Lands(t) ==
  /\ \/ phase[t] = "charge_adrift" /\ AddUnheard(t)
     \/ phase[t] = "expiry_adrift" /\ window' = "fresh" /\ UNCHANGED <<counter, unset>>
  /\ Move(t, "over")
  /\ UNCHANGED redisFaults

\* The tasks of these runs are cancelled where they await: in the graph, and the
\* runs in `going` go on to record their usage, or at a call of _record_usage, which
\* nothing shields and which may have been sent.
CutOff(ts, going) ==
  /\ \E sent \in SUBSET {t \in ts : phase[t] = "charging"} :
       /\ phase' = [t \in Turns |->
                      IF t \in going THEN "charging"
                      ELSE IF t \in sent THEN "charge_adrift"
                      ELSE IF t \notin ts THEN phase[t]
                      ELSE IF phase[t] = "charged" THEN "expiry_adrift" ELSE "over"]
       /\ IF sent = {} THEN UNCHANGED redisFaults ELSE RedisFault
  /\ UNCHANGED <<counter, window, unset>>

\* time passes: the window grows old, then the key is gone
Age ==
  /\ \/ window = "fresh" /\ window' = "aged" /\ UNCHANGED <<counter, unset>>
     \/ window = "aged" /\ window' = "none" /\ counter' = 0 /\ unset' = FALSE
  /\ UNCHANGED <<phase, redisFaults>>

\* who has opened the window that has no expiry yet
Opener(t) == phase[t] \in {"charged", "expiry_adrift"}

\* The window of an address is fixed: charges of whatever runs overlap, be they
\* repeated or come late, never push back an expiry that has been set; and a key
\* that has none has one run that owes it the expiry, or whose call for it is
\* adrift, unless it was opened by a charge whose answer nobody has heard.
WindowKept ==
  /\ window = "aged" => window' # "fresh"
  /\ counter' > 0 /\ window' = "none" => unset' \/ \E t \in Turns : Opener(t)'

IpWindowIsFixed == [][WindowKept]_budgetVars
==============================================================================
