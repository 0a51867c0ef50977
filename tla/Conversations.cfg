\* A plan of two tasks at work side by side, another plan shelved, and two
\* requests of any kind under way at a time; turns that are the same or not.
SPECIFICATION ConversationSpec
CONSTANTS
    PlanIds = {p1, p2}
    Shapes <- TwoTasks
    Domains = {d1}
    Modes = {TRUE}
    MaxHandoffs = 0
    Requests = {q1, q2}
    RequestIds = {i1, i2}
    None = None
INVARIANTS
    PanelTellsTheTruth
PROPERTIES
    CardsAreAnswered
    ClearSparesRuns
SYMMETRY Symmetry
