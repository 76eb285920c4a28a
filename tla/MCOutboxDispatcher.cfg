SPECIFICATION FairSpec
CONSTANTS
    w1 = w1
    w2 = w2
    u1 = u1
    u2 = u2
    u3 = u3
    NoWorker = NoWorker
    Nobody = Nobody
    Workers = {w1, w2}
    MaxFaults = 1
    Users = {u1, u2}
    Host = u1
    English = {u2}
    NumEvents = 1
    Limit = 1
    MaxDelivery = 2
    Releases = {"new", "old"}
CHECK_DEADLOCK FALSE
INVARIANTS
    InboxOnce
    EveryoneHasRow
    PushedOnce
PROPERTIES
    Settled
