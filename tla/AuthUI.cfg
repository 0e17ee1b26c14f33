\* Two accounts, one application, two requests in flight.
CONSTANTS
    Users = {u1, u2}
    Internal = {u1}
    Targets = {x1}
    Calls = {r1, r2}
    Registration = TRUE
    Absent = Absent

SPECIFICATION Spec
SYMMETRY Symmetric
INVARIANTS
    StorageIsOneAccounts
    LogoutSticks
CHECK_DEADLOCK FALSE
