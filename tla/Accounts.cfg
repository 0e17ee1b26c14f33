SPECIFICATION Spec
CONSTANTS
    Users = {u1}
    SecondaryOn = TRUE
    MaxAttempts = 2
    LockTime = 1
    Otps = {k1}
    Requests = {r1, r2}
    MayFail = {"db", "redis", "directory"}
    MaxTime = 2
    Absent = Absent
SYMMETRY AccountsSymmetry
INVARIANTS
    LockHolds
    GuessesBounded
PROPERTIES
    BindingIsTheAdmins
    ChangeDateOnlyAdvances
CHECK_DEADLOCK FALSE
