SPECIFICATION Spec
CONSTANTS
    plain = plain
    manual = manual
    versioned = versioned
    c1 = c1
    c2 = c2
    c3 = c3
    b1 = b1
    b2 = b2
    Nobody = Nobody
    Keys = {manual, versioned}
    Manual = {manual}
    Versioned = {versioned}
    Callers = {c1, c2}
    Bodies = {b1, b2}
    ClaimAttempts = 3
    MaxApplied = 2
SYMMETRY MCSymmetry
CHECK_DEADLOCK FALSE
INVARIANTS
    ManualExact
    AppliedOnce
PROPERTIES
    ReplayFaithful
    ClaimKept
