SPECIFICATION Spec
CONSTANTS
    Users = {u1}
    InternalUsers = {u1}
    Sids = {s1}
    RowIds = {i1, i2}
    Codes = {k1}
    Requests = {r1, r2}
    AccessTTL = 1
    SessionTTL = 1
    MayFail = {"db", "redis"}
    MaxTime = 2
    Absent = Absent
SYMMETRY AccessSymmetry
INVARIANTS
    AccessTypeOK
    SweptTokensAreRejected
    EndedStaysEnded
CHECK_DEADLOCK FALSE
