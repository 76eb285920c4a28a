SPECIFICATION DeliverySpec
CONSTANTS
    e1 = e1
    e2 = e2
    w1 = w1
    r1 = r1
    r2 = r2
    m1 = m1
    s1 = s1
    s2 = s2
    d1 = d1
    d2 = d2
    None = None
    NoWorker = NoWorker
    Exports = {e1, e2}
    Workers = {w1}
    Requests = {r1}
    Admins = {}
    UploadTimeout = 1
    LeaseTtl = 1
    MaxFailures = 1
    MaxCleanup = 1
    PerHour = 1
    MaxAttempts = 1
    MaxEpoch = 1
    Sessions = {s1}
    Downloads = {d1, d2}
    MaxDownloads = 2
SYMMETRY MCSymmetry
CHECK_DEADLOCK FALSE
INVARIANTS
    LedgerTruthful
    SlotsExact
    ServedOnce
    DeliveryObserved
PROPERTIES
    EndedStays
    RevokedNotServed
