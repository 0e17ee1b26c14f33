\* Two handlers of one user, every store and Zimbra failing at any call.
CONSTANTS
    Users = {u1}
    Passwords = {p1, p2}
    Tickets = {t1}
    Logins = {l1, l2}
    MaxWrong = 2
    Requests = {r1, r2}
    MayFail = {"db", "redis", "zimbra"}
    Absent = Absent

SPECIFICATION Spec
SYMMETRY Symmetric
INVARIANTS
    OldPasswordGuessesBounded
    BlocksEnd
    RequirementHolds
CHECK_DEADLOCK FALSE
