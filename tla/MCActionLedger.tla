---------------------------- MODULE MCActionLedger ----------------------------
(* Small instance of ActionLedger: a document with a start and an end, where   *)
(* the schema wants start <= end.                                              *)
EXTENDS ActionLedger, TLC

DateFields == {"start", "end"}
Days       == 0..1
InOrder    == {p \in [DateFields -> Days] : p["start"] <= p["end"]}
Whole      == ("start" :> 0) @@ ("end" :> 1)
Later      == ("start" :> 1) @@ ("end" :> Same)
Earlier    == ("start" :> Same) @@ ("end" :> 0)
New        == {Whole}
Asked      == {Later, Earlier}
Symmetry   == Permutations(Creates) \cup Permutations(Updates) \cup Permutations(Revokes)
==============================================================================
