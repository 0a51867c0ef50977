----------------------------- MODULE MCWorkflow -----------------------------
(***************************************************************************)
(* Finite instances of Workflow for TLC, and the validators of PlanRules   *)
(* against what their error messages promise, for all small plans.         *)
(***************************************************************************)
EXTENDS Workflow, TLC

Single == {<<{}>>}
Pairs == {<<{}, {}>>, <<{}, {1}>>, <<{2}, {1}>>}

PlanSymmetry == Permutations(PlanIds)

\* "The tasks can be put in an order" (models.py 92): whichever of them are left,
\* one of them can be done.
ASSUME PlansCanBeDone ==
    \A n \in 1..3 : \A deps \in [1..n -> SUBSET (1..n)] :
        IsTaskPlan(deps) <=>
            \A left \in SUBSET (1..n) \ {{}} : \E i \in left : deps[i] \intersect left = {}

\* "A cycle cannot come about" (models.py 112) from outlines.
ASSUME OutlinesCanBeDone ==
    \A n \in 1..3 : \A outlines \in Outlines(n, {"travel", "expense"}) :
        NeedsAreEarlier(outlines) => IsTaskPlan(Dependencies(outlines))
=============================================================================
