------------------------------ MODULE PlanRules ------------------------------
(***************************************************************************)
(* What the validators of core/models.py let through: the tasks a plan may *)
(* consist of (plan_from_outlines, TaskPlan.validate_dependencies) and     *)
(* what the Supervisor may say of a turn (ContextResolution).  A task is   *)
(* its position in the plan; titles, objectives and texts are data.        *)
(***************************************************************************)
EXTENDS Naturals, Sequences, FiniteSets

-----------------------------------------------------------------------------
(* Plans.  deps[i] is what task i depends on. *)

\* The worklist of validate_dependencies ends with the least set that contains
\* every task whose dependencies it contains.
Finishable(deps) ==
    LET Closed(S) == \A i \in DOMAIN deps : deps[i] \subseteq S => i \in S
    IN  {i \in DOMAIN deps : \A S \in SUBSET DOMAIN deps : Closed(S) => i \in S}

\* TaskPlan: at least one task, dependencies on other tasks of the plan, and an
\* order in which they can be done.
IsTaskPlan(deps) ==
    /\ deps # <<>>
    /\ \A i \in DOMAIN deps : deps[i] \subseteq DOMAIN deps \ {i}
    /\ Finishable(deps) = DOMAIN deps

\* An outline names the tasks it needs by their domain.
Outlines(n, domains) == [1..n -> [domain : domains, needs : SUBSET domains]]

\* plan_from_outlines raises unless an earlier task has the domain, and takes the
\* first that has.
NeedsAreEarlier(outlines) ==
    \A i \in DOMAIN outlines : \A d \in outlines[i].needs :
        \E j \in 1..(i - 1) : outlines[j].domain = d

FirstOf(outlines, d) ==
    CHOOSE j \in DOMAIN outlines :
        /\ outlines[j].domain = d
        /\ \A k \in 1..(j - 1) : outlines[k].domain # d

Dependencies(outlines) ==
    [i \in DOMAIN outlines |-> {FirstOf(outlines, d) : d \in outlines[i].needs}]

-----------------------------------------------------------------------------
(* Turns *)

Relations == {"new", "continue", "revise", "cancel"}

\* `planning` is requires_task_planning, `reply` tells whether there is one, and
\* `revisions` are the tasks the revisions name.
Resolutions(tasks) ==
    [relation : Relations, planning : BOOLEAN, reply : BOOLEAN, revisions : SUBSET tasks]

\* ContextResolution.validate_reply: a turn in which nobody else speaks needs a
\* reply, one that resumes is worked on, one that revises is not.
IsResolution(c) ==
    /\ ~c.planning /\ c.relation \notin {"cancel", "revise"} => c.reply
    /\ c.relation = "continue" => c.planning
    /\ c.relation = "revise" => ~c.planning /\ c.revisions # {}
    /\ c.revisions # {} => c.relation \in {"continue", "revise"}
=============================================================================
