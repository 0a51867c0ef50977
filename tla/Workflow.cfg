\* Plans of two tasks, dependent or not, dispatched one by one or in parallel;
\* one current and up to two shelved plans.
SPECIFICATION Spec
CONSTANTS
    PlanIds = {p1, p2, p3}
    Shapes <- Pairs
    Domains = {d1}
    Modes = {TRUE, FALSE}
    MaxHandoffs = 2
    None = None
INVARIANTS
    EachPlanOnce
    DependenciesHold
    NothingStranded
    DraftsBelong
    EveryTurnSpeaks
PROPERTIES
    EndedIsFinal
    OpenMattersKept
SYMMETRY PlanSymmetry
