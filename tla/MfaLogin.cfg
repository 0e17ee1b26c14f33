SPECIFICATION Spec
CONSTANTS
    Users = {u1, u2}
    MfaUsers = {u1}
    Tickets = {t1, t2}
    Secrets = {x1, x2}
    BackupCodes = {b1, b2, b3, b4}
    ListSize = 2
    MaxAttempts = 2
    Requests = {r1, r2}
    MayFail = {"db"}
    Absent = Absent
    Wrong = Wrong
SYMMETRY MfaSymmetry
INVARIANTS
    MfaTypeOK
    GuessesBounded
    RetiredFactorsAreDead
    EnabledHasSecret
CHECK_DEADLOCK FALSE
