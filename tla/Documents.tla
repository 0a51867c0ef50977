------------------------------ MODULE Documents ------------------------------
(***************************************************************************)
(* What the ledger of business documents promises, with no calls, replies  *)
(* or crashes in it: a document is submitted once, is amended field by     *)
(* field from what it says at that moment, always stays legal, and once    *)
(* withdrawn never changes again.                                          *)
(***************************************************************************)
CONSTANTS Refs,      \* references of documents
          Fields,    \* the fields of a document
          Values,    \* the values of a field
          Legal,     \* payloads the schema accepts
          Same,      \* "leave this field as it is" in a patch
          None       \* no document

VARIABLE docs

Payloads == [Fields -> Values]
Patches  == [Fields -> Values \cup {Same}]
Docs     == [payload: Payloads, revoked: BOOLEAN]

\* A patch applied to a payload: the fields it names change, the others stay.
Patched(p, c) == [f \in Fields |-> IF c[f] = Same THEN p[f] ELSE c[f]]

Init == docs = [d \in Refs |-> None]

Submit(d, p) ==
  /\ docs[d] = None
  /\ p \in Legal
  /\ docs' = [docs EXCEPT ![d] = [payload |-> p, revoked |-> FALSE]]

Amend(d, c) ==
  /\ docs[d] # None
  /\ ~docs[d].revoked
  /\ Patched(docs[d].payload, c) \in Legal
  /\ docs' = [docs EXCEPT ![d] = [payload |-> Patched(docs[d].payload, c), revoked |-> FALSE]]

Withdraw(d) ==
  /\ docs[d] # None
  /\ ~docs[d].revoked
  /\ docs' = [docs EXCEPT ![d] = [payload |-> docs[d].payload, revoked |-> TRUE]]

Next ==
  \E d \in Refs :
    \/ \E p \in Payloads : Submit(d, p)
    \/ \E c \in Patches : Amend(d, c)
    \/ Withdraw(d)

Spec == Init /\ [][Next]_docs
==============================================================================
