SPECIFICATION Spec
CONSTANTS
    h = h
    m1 = m1
    m2 = m2
    a = a
    b = b
    q1 = q1
    q2 = q2
    Members = {h, m1}
    Host = h
    Places = {a}
    NoPlace = NoPlace
    Modes = {"match", "host"}
    Values = {"no", "yes"}
    Requests = {q1, q2}
    MaxRuns = 2
    MaxConstraints = 2
    MaxVersion = 1
SYMMETRY MCSymmetry
CHECK_DEADLOCK FALSE
INVARIANTS
    FreshOfConstraints
    OneFreshRanking
    MatchIsMutual
