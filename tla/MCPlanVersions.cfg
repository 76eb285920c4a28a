SPECIFICATION Spec
CONSTANTS
    a = a
    b = b
    q1 = q1
    q2 = q2
    Places = {a}
    Requests = {q1, q2}
    MaxPlans = 3
    MaxConstraints = 2
    MaxRounds = 2
    MaxMoves = 1
SYMMETRY MCSymmetry
CHECK_DEADLOCK FALSE
INVARIANTS
    TypeOK
    NothingOverwritten
    FreshAsComputed
    OneDecision
PROPERTY
    FrozenOnceStarted
