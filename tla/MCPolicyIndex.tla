---------------------------- MODULE MCPolicyIndex ----------------------------
(* Instance of PolicyIndex for TLC: three models, two of which share a     *)
(* dimension.                                                              *)
EXTENDS PolicyIndex, TLC

CONSTANTS m1, m2, m3

MCDim == (m1 :> 4) @@ (m2 :> 4) @@ (m3 :> 8)
Symmetry == Permutations(Clauses) \union Permutations(Texts)
=============================================================================
