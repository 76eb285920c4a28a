SPECIFICATION Spec
CONSTANTS
    e1 = e1
    e2 = e2
    w1 = w1
    w2 = w2
    r1 = r1
    r2 = r2
    m1 = m1
    None = None
    NoWorker = NoWorker
    Exports = {e1}
    Workers = {w1, w2}
    Requests = {r1}
    Admins = {m1}
    UploadTimeout = 1
    LeaseTtl = 2
    MaxFailures = 2
    MaxCleanup = 2
    PerHour = 2
    MaxAttempts = 2
    MaxEpoch = 1
SYMMETRY MCSymmetry
CHECK_DEADLOCK FALSE
INVARIANTS
    NoOrphan
    ReadyIsStored
    LedgerTruthful
