\* Two tasks side by side or one after the other, a visible call
\* each that may be repeated in its node, texts around the threshold, whole texts,
\* cards and handoffs.
SPECIFICATION Spec
CONSTANTS
    Tasks = {t1, t2}
    Hold = 2
    MaxCalls = 1
    MaxText = 3
    MaxWholes = 2
    None = None
INVARIANTS
    OneAnswerPerBubble
    NothingHeldBack
SYMMETRY TaskSymmetry
\* The run is over.
CHECK_DEADLOCK FALSE
