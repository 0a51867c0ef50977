----------------------------- MODULE MCLifespan -----------------------------
(* Small instance of Lifespan: two runs that use one and two tokens. *)
EXTENDS Lifespan
Tokens == [t \in Turns |-> IF t = CHOOSE u \in Turns : TRUE THEN 1 ELSE 2]
=============================================================================
