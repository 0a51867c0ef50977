--------------------------- MODULE MCConversations ---------------------------
(* A finite instance of Conversations for TLC. *)
EXTENDS Conversations, TLC

TwoTasks == {<<{}, {}>>}

Symmetry ==
    Permutations(PlanIds) \union Permutations(Requests) \union Permutations(RequestIds)
=============================================================================
