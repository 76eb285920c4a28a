SPECIFICATION Spec
CONSTANTS
    m1 = m1
    m2 = m2
    w1 = w1
    w2 = w2
    u1 = u1
    u2 = u2
    d1 = d1
    Admins = {m1, m2}
    Workers = {w1, w2}
    Accounts = {u1}
    Devices = {}
    MaxKeys = 2
    MaxTexts = 1
    MaxCrashes = 1
SYMMETRY MCSymmetry
CHECK_DEADLOCK FALSE
INVARIANT
    NotTwice
