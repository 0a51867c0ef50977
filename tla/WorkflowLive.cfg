\* Turns end, with a task that three domains may pass around.  One hand-off is
\* allowed, so that both barriers are met: having been there, and too often.
SPECIFICATION FairSpec
CONSTANTS
    PlanIds = {p1, p2}
    Shapes <- Single
    Domains = {d1, d2, d3}
    Modes = {FALSE}
    MaxHandoffs = 1
    None = None
PROPERTIES
    TurnEnds
