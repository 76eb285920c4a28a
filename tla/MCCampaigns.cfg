SPECIFICATION FairSpec
CONSTANTS
    m1 = m1
    m2 = m2
    w1 = w1
    w2 = w2
    u1 = u1
    u2 = u2
    d1 = d1
    Admins = {m1, m2}
    Workers = {w1}
    Accounts = {u1}
    Devices = {}
    MaxKeys = 2
    MaxTexts = 2
    MaxCrashes = 1
CHECK_DEADLOCK FALSE
INVARIANTS
    SendingIsMarked
    TwiceIsExcused
PROPERTY
    SendingEnds
