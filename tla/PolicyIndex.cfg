SPECIFICATION Spec
CONSTANTS
    m1 = m1
    m2 = m2
    m3 = m3
    Clauses = {c1, c2}
    Texts = {t1, t2}
    Models = {m1, m2, m3}
    Dim <- MCDim
    Searches = {s1}
    None = None
SYMMETRY Symmetry
INVARIANTS
    SyncIsExact
    AnswersAreCurrent
PROPERTY CurrentRowsStay
