SPECIFICATION Spec
CONSTANTS
    h = h
    r1 = r1
    r2 = r2
    u1 = u1
    q1 = q1
    q2 = q2
    i1 = i1
    Rows <- MCRows
    HostRow = h
    Users = {u1}
    Host = Host
    Guest = Guest
    Invites = {i1}
    NoInvite = NoInvite
    Requests = {q1, q2}
    Choices = {"yes"}
    MaxUses = 1
    MaxVersion = 1
SYMMETRY MCSymmetry
CHECK_DEADLOCK FALSE
INVARIANTS
    QuotaHolds
    AnsweredOrAcknowledged
    OneStart
PROPERTY
    QuorumIsTwoPeople
